---- MODULE Spec2Model ----
(***************************************************************************)
(* Electromagnetic Spectrum Explorer: the conversion / classification      *)
(* core (physicsCalculations.js, unitConversions.js, spectrumData.js).     *)
(*                                                                         *)
(* JavaScript numbers are IEEE-754 binary64 values.  They are modelled     *)
(* bit-exactly: a finite number is s * m * 2^e with m a natural number of  *)
(* at most 53 bits (exactly 53 bits unless the number is subnormal, so     *)
(* every value has one representation), and every arithmetic operation     *)
(* rounds to nearest, ties to even, with gradual underflow and overflow    *)
(* to Infinity.  Since the model checker's integers are 32 bits wide, m    *)
(* is kept as a little-endian sequence of 15-bit limbs.                    *)
(***************************************************************************)
EXTENDS Integers, Sequences, FiniteSets, TLC

(***************************************************************************)
(* Natural numbers of arbitrary size: little-endian limbs, no high zeros.  *)
(***************************************************************************)
LimbBits == 10 + 5
BASE == 2^LimbBits

Max(a, b) == IF a >= b THEN a ELSE b
Min(a, b) == IF a <= b THEN a ELSE b

RECURSIVE BTrim(_)
BTrim(a) ==
  IF a = <<>> THEN <<>>
  ELSE IF a[Len(a)] = 0 THEN BTrim(SubSeq(a, 1, Len(a) - 1)) ELSE a

RECURSIVE BFromInt(_)
BFromInt(n) == IF n = 0 THEN <<>> ELSE <<n % BASE>> \o BFromInt(n \div BASE)

Limb(a, i) == IF i <= Len(a) THEN a[i] ELSE 0

RECURSIVE BCmpAt(_, _, _)
BCmpAt(a, b, i) ==
  IF i = 0 THEN 0
  ELSE IF a[i] # b[i] THEN (IF a[i] < b[i] THEN -1 ELSE 1)
  ELSE BCmpAt(a, b, i - 1)

\* -1, 0, 1 as a < b, a = b, a > b
BCmp(a, b) ==
  IF Len(a) # Len(b) THEN (IF Len(a) < Len(b) THEN -1 ELSE 1)
  ELSE BCmpAt(a, b, Len(a))

RECURSIVE BAddC(_, _, _, _)
BAddC(a, b, i, c) ==
  IF i > Len(a) /\ i > Len(b) THEN (IF c = 0 THEN <<>> ELSE <<c>>)
  ELSE <<(Limb(a, i) + Limb(b, i) + c) % BASE>>
       \o BAddC(a, b, i + 1, (Limb(a, i) + Limb(b, i) + c) \div BASE)

\* the operands are bound to values before the limbs are walked
BAdd(a, b) == CHOOSE total \in {BAddC(x, y, 1, 0) : x \in {a}, y \in {b}} : TRUE

RECURSIVE BSubC(_, _, _, _)
BSubC(a, b, i, c) ==
  IF i > Len(a) THEN <<>>
  ELSE <<(a[i] - Limb(b, i) - c) % BASE>>
       \o BSubC(a, b, i + 1, IF a[i] - Limb(b, i) - c < 0 THEN 1 ELSE 0)

\* a - b for a >= b
BSub(a, b) == CHOOSE rest \in {BTrim(BSubC(x, y, 1, 0)) : x \in {a}, y \in {b}} : TRUE

RECURSIVE BMulSmallC(_, _, _, _)
BMulSmallC(a, k, i, c) ==
  IF i > Len(a) THEN (IF c = 0 THEN <<>> ELSE <<c>>)
  ELSE <<(a[i] * k + c) % BASE>> \o BMulSmallC(a, k, i + 1, (a[i] * k + c) \div BASE)

\* a * k for 0 <= k < BASE
BMulSmall(a, k) == IF k = 0 THEN <<>> ELSE BMulSmallC(a, k, 1, 0)

BShlLimbs(a, n) == IF a = <<>> THEN <<>> ELSE [i \in 1..n |-> 0] \o a

RECURSIVE BMulAt(_, _, _, _)
\* a times the limbs lo..hi of b, each in its place: the two halves are
\* bound to values and added
BMulAt(a, b, lo, hi) ==
  IF lo > hi THEN <<>>
  ELSE IF lo = hi THEN BShlLimbs(BMulSmall(a, b[lo]), lo - 1)
  ELSE CHOOSE product \in
         {BAddC(low, high, 1, 0) :
            low \in {BMulAt(a, b, lo, (lo + hi) \div 2)},
            high \in {BMulAt(a, b, ((lo + hi) \div 2) + 1, hi)}} : TRUE

BMul(a, b) == CHOOSE product \in {BMulAt(x, y, 1, Len(y)) : x \in {a}, y \in {b}} : TRUE

\* a * 2^n
BShl(a, n) == BShlLimbs(BMulSmall(a, 2^(n % LimbBits)), n \div LimbBits)

RECURSIVE BDivSmallAt(_, _, _, _)
BDivSmallAt(a, d, i, r) ==
  IF i = 0 THEN <<>>
  ELSE BDivSmallAt(a, d, i - 1, (r * BASE + a[i]) % d) \o <<(r * BASE + a[i]) \div d>>

\* floor(a / d) for 0 < d < BASE
BDivSmall(a, d) == BTrim(BDivSmallAt(a, d, Len(a), 0))

RECURSIVE BModSmallAt(_, _, _, _)
BModSmallAt(a, d, i, r) ==
  IF i = 0 THEN r ELSE BModSmallAt(a, d, i - 1, (r * BASE + a[i]) % d)

BModSmall(a, d) == BModSmallAt(a, d, Len(a), 0)

\* floor(a / 2^n)
BShr(a, n) ==
  IF n \div LimbBits >= Len(a) THEN <<>>
  ELSE BDivSmall(SubSeq(a, (n \div LimbBits) + 1, Len(a)), 2^(n % LimbBits))

\* the number of bits of a
BBitLen(a) ==
  IF a = <<>> THEN 0
  ELSE LimbBits * (Len(a) - 1)
       + (CHOOSE k \in 1..LimbBits : 2^(k - 1) <= a[Len(a)] /\ a[Len(a)] < 2^k)

\* bit i of a (bit 0 is the lowest)
BBit(a, i) == (Limb(a, (i \div LimbBits) + 1) \div 2^(i % LimbBits)) % 2

\* some bit of a below bit i is set
BAnyBelow(a, i) ==
  \E j \in 1..Len(a) :
    IF j <= i \div LimbBits THEN a[j] # 0
    ELSE j = (i \div LimbBits) + 1 /\ a[j] % 2^(i % LimbBits) # 0

RECURSIVE QDigit(_, _, _, _)
\* the largest d < BASE with b * d <= r, found bit by bit from the top
QDigit(b, r, bit, d) ==
  IF bit < 0 THEN d
  ELSE IF BCmp(BMulSmall(b, d + 2^bit), r) <= 0
       THEN QDigit(b, r, bit - 1, d + 2^bit)
       ELSE QDigit(b, r, bit - 1, d)

\* the next digit of the quotient, from the remainder so far
BDivDigit(b, cur) ==
  IF BCmp(cur, b) < 0 THEN 0 ELSE QDigit(b, cur, LimbBits - 1, 0)
BDivPut(b, cur, d, q) == [q |-> <<d>> \o q, r |-> BSub(cur, BMulSmall(b, d))]
BDivStep(b, cur, q) ==
  CHOOSE rest \in {BDivPut(b, cur, d, q) : d \in {BDivDigit(b, cur)}} : TRUE
\* one step of long division: the next limb of the dividend joins the
\* remainder, and the quotient gains a digit
BDivOne(b, limb, st) ==
  CHOOSE rest \in {BDivStep(b, cur, st.q) : cur \in {BTrim(<<limb>> \o st.r)}} : TRUE

RECURSIVE BDivLimbs(_, _, _, _)
\* long division, one limb of a at a time from the most significant; the
\* remainder and the quotient so far are bound to values at every step
BDivLimbs(a, b, i, st) ==
  IF i = 0 THEN st
  ELSE CHOOSE rest \in {BDivLimbs(a, b, i - 1, next) :
                        next \in {BDivOne(b, a[i], st)}} : TRUE

\* the high limbs of a that cannot reach b are the first remainder: the
\* division starts where the quotient can have its first digit
BDivFrom(a, b) ==
  IF Len(a) < Len(b) THEN [q |-> <<>>, r |-> a]
  ELSE BDivLimbs(a, b, Len(a) - Len(b) + 1,
                 [q |-> <<>>, r |-> SubSeq(a, Len(a) - Len(b) + 2, Len(a))])

BDivTrim(d) == [q |-> BTrim(d.q), r |-> d.r]
\* quotient and remainder of a / b for b > 0
BDivMod(a, b) ==
  IF b = <<1>> THEN [q |-> a, r |-> <<>>]
  ELSE CHOOSE rest \in {BDivTrim(BDivFrom(x, y)) : x \in {a}, y \in {b}} : TRUE

RECURSIVE BPow10(_)
BSquareTimes(h, k) == BMulSmall(BMul(h, h), k)
BPow10(n) ==
  IF n = 0 THEN <<1>>
  ELSE CHOOSE power \in {BSquareTimes(h, IF n % 2 = 0 THEN 1 ELSE 10) :
                          h \in {BPow10(n \div 2)}} : TRUE

RECURSIVE BFromDigitsAt(_, _)
BFromDigitsAt(ds, i) ==
  IF i = 0 THEN <<>>
  ELSE BAdd(BMulSmall(BFromDigitsAt(ds, i - 1), 10),
            IF ds[i] = 0 THEN <<>> ELSE <<ds[i]>>)

\* the natural number written with the decimal digits ds (most significant first)
BFromDigits(ds) == BFromDigitsAt(ds, Len(ds))

RECURSIVE BToDigits(_)
\* the decimal digits of a, most significant first (none for 0)
BToDigits(a) ==
  IF a = <<>> THEN <<>> ELSE BToDigits(BDivSmall(a, 10)) \o <<BModSmall(a, 10)>>

(***************************************************************************)
(* IEEE-754 binary64 values.                                               *)
(***************************************************************************)
MantBits == 50 + 3
EMin == 0 - 1074
EMax == 1024 - MantBits

NaN == [k |-> "nan"]
PosInf == [k |-> "inf", s |-> 1]
NegInf == [k |-> "inf", s |-> -1]
Zero == [k |-> "fin", s |-> 1, m |-> <<>>, e |-> 0]
Fin(s, m, e) == [k |-> "fin", s |-> s, m |-> m, e |-> e]

isNaN(x) == x.k = "nan"
isFinite(x) == x.k = "fin"
IsZero(x) == x.k = "fin" /\ x.m = <<>>

Pack(s, m, e) ==
  IF m = <<>> THEN Zero
  ELSE IF e > EMax THEN [k |-> "inf", s |-> s]
  ELSE Fin(s, m, e)

Normalise(s, m, e) ==
  IF BBitLen(m) > MantBits THEN Pack(s, BShr(m, 1), e + 1) ELSE Pack(s, m, e)

RoundQ(s, q, e, half, more) ==
  Normalise(s, IF half /\ (more \/ BBit(q, 0) = 1) THEN BAdd(q, <<1>>) ELSE q, e)

RoundTo(s, n, e, sticky, e2) ==
  IF e2 <= e THEN Pack(s, BShl(n, e - e2), e2)
  ELSE RoundQ(s, BShr(n, e2 - e), e2, BBit(n, e2 - e - 1) = 1,
              sticky \/ BAnyBelow(n, e2 - e - 1))

\* The binary64 nearest to s * (n + t) * 2^e, where n > 0 and 0 <= t < 1 with
\* t > 0 iff sticky: round to nearest, ties to even.
RoundPack(s, n, e, sticky) ==
  RoundTo(s, n, e, sticky, Max(e + BBitLen(n) - MantBits, EMin))

RatioQR(s, d, e) == RoundPack(s, d.q, e, d.r # <<>>)
RatioSh(s, a, b, e, sh) == RatioQR(s, BDivMod(BShl(a, sh), b), e - sh)

\* The binary64 nearest to s * (a / b) * 2^e for natural numbers a > 0, b > 0
Ratio(s, a, b, e) ==
  RatioSh(s, a, b, e,
          IF b = <<1>> THEN 0
          ELSE Max(0, MantBits + 2 + BBitLen(b) - BBitLen(a)))

\* x * y
FMul(x, y) ==
  IF isNaN(x) \/ isNaN(y) THEN NaN
  ELSE IF x.k = "inf" \/ y.k = "inf"
       THEN IF IsZero(x) \/ IsZero(y) THEN NaN
            ELSE [k |-> "inf", s |-> x.s * y.s]
  ELSE IF IsZero(x) \/ IsZero(y) THEN Zero
  ELSE Ratio(x.s * y.s, BMul(x.m, y.m), <<1>>, x.e + y.e)

\* x / y
FDiv(x, y) ==
  IF isNaN(x) \/ isNaN(y) THEN NaN
  ELSE IF x.k = "inf"
       THEN IF y.k = "inf" THEN NaN ELSE [k |-> "inf", s |-> x.s * y.s]
  ELSE IF y.k = "inf" THEN Zero
  ELSE IF IsZero(y)
       THEN IF IsZero(x) THEN NaN ELSE [k |-> "inf", s |-> x.s * y.s]
  ELSE IF IsZero(x) THEN Zero
  ELSE Ratio(x.s * y.s, x.m, y.m, x.e - y.e)

\* where x stands among the signs: -2, -1, 0, 1, 2 for -Infinity, negative,
\* zero, positive and Infinity
Rank(x) == IF x.k = "inf" THEN 2 * x.s ELSE IF x.m = <<>> THEN 0 ELSE x.s

\* -1, 0, 1 as |x| < |y|, |x| = |y|, |x| > |y|, for finite non-zero x and y
CmpMag(x, y) ==
  IF x.e # y.e THEN (IF x.e < y.e THEN -1 ELSE 1) ELSE BCmp(x.m, y.m)

\* -1, 0, 1 as x < y, x = y, x > y, for x and y that are not NaN
FCmp(x, y) ==
  IF Rank(x) # Rank(y) THEN (IF Rank(x) < Rank(y) THEN -1 ELSE 1)
  ELSE IF Rank(x) \in {-1, 1} THEN x.s * CmpMag(x, y)
  ELSE 0

\* JavaScript's relational operators: every comparison with NaN is false
FLt(x, y) == ~isNaN(x) /\ ~isNaN(y) /\ FCmp(x, y) < 0
FLe(x, y) == ~isNaN(x) /\ ~isNaN(y) /\ FCmp(x, y) <= 0
FGe(x, y) == ~isNaN(x) /\ ~isNaN(y) /\ FCmp(x, y) >= 0

Neg(x) == IF x.k = "nan" \/ IsZero(x) THEN x ELSE [x EXCEPT !.s = 0 - x.s]

\* The number nearest to n * 10^p for a natural number n (as limbs)
LitN(n, p) ==
  IF n = <<>> THEN Zero
  ELSE Ratio(1, BMul(n, BPow10(Max(p, 0))), BPow10(Max(0 - p, 0)), 0)

\* The value of the numeric literal whose significant digits are ds (most
\* significant first) times 10^p
Lit(ds, p) == LitN(BFromDigits(ds), p)

\* The literal n * 10^p for a natural number n below 2^31
Num(n, p) == LitN(BFromInt(n), p)

\* |a - b| for natural numbers a and b
BDist(a, b) == IF BCmp(a, b) >= 0 THEN BSub(a, b) ELSE BSub(b, a)

\* x + y
FAddMag(x, y, e0) ==
  IF x.s = y.s
  THEN RoundPack(x.s, BAdd(BShl(x.m, x.e - e0), BShl(y.m, y.e - e0)), e0, FALSE)
  ELSE IF CmpMag(x, y) = 0 THEN Zero
  ELSE IF CmpMag(x, y) > 0
       THEN RoundPack(x.s, BSub(BShl(x.m, x.e - e0), BShl(y.m, y.e - e0)), e0, FALSE)
  ELSE RoundPack(y.s, BSub(BShl(y.m, y.e - e0), BShl(x.m, x.e - e0)), e0, FALSE)

FAdd(x, y) ==
  IF isNaN(x) \/ isNaN(y) THEN NaN
  ELSE IF x.k = "inf" THEN (IF y.k = "inf" /\ y.s # x.s THEN NaN ELSE x)
  ELSE IF y.k = "inf" THEN y
  ELSE IF IsZero(x) THEN y
  ELSE IF IsZero(y) THEN x
  ELSE FAddMag(x, y, Min(x.e, y.e))

\* x - y
FSub(x, y) == FAdd(x, Neg(y))

\* the doubles next to a finite non-zero x, away from zero and towards it
MagUp(x) == Normalise(x.s, BAdd(x.m, <<1>>), x.e)
MagDown(x) ==
  IF BBitLen(BSub(x.m, <<1>>)) < MantBits /\ x.e > EMin /\ BBitLen(x.m) = MantBits
  THEN Fin(x.s, BSub(BShl(x.m, 1), <<1>>), x.e - 1)
  ELSE Pack(x.s, BSub(x.m, <<1>>), x.e)

\* the doubles next above and next below a finite non-zero x
NextUp(x) == IF x.s = 1 THEN MagUp(x) ELSE MagDown(x)
NextDown(x) == IF x.s = 1 THEN MagDown(x) ELSE MagUp(x)


RECURSIVE BSqrtFrom(_, _)
\* Newton's iteration for the integer square root, from a start x >= sqrt(n)
BSqrtFrom(n, x) ==
  CHOOSE root \in {IF BCmp(y, x) >= 0 THEN x ELSE BSqrtFrom(n, y) :
                   y \in {BShr(BAdd(x, BDivMod(n, x).q), 1)}} : TRUE

\* floor(sqrt(n)) for n > 0
BSqrt(n) == BSqrtFrom(n, BShl(<<1>>, (BBitLen(n) + 1) \div 2))

\* the double nearest to sqrt(m * 2^e) for an even e: the root of m * 2^54
\* carries the 53 bits and the rounding bit
SqrtEven(m, e) ==
  RoundPack(1, BSqrt(BShl(m, 54)), (e \div 2) - 27,
            BMul(BSqrt(BShl(m, 54)), BSqrt(BShl(m, 54))) # BShl(m, 54))

\* Math.sqrt: correctly rounded (IEEE 754)
Math_sqrt(x) ==
  IF isNaN(x) \/ FLt(x, Zero) THEN NaN
  ELSE IF x.k = "inf" \/ IsZero(x) THEN x
  ELSE IF x.e % 2 = 0 THEN SqrtEven(x.m, x.e)
  ELSE SqrtEven(BShl(x.m, 1), x.e - 1)
(***************************************************************************)
(* JavaScript strings: sequences of one-character strings.                 *)
(***************************************************************************)
Str(chars) == [k |-> "string", chars |-> chars]
Throw(message) == [k |-> "throw", message |-> message]

Whitespace == {" ", "\t", "\n"}
Digits == <<"0", "1", "2", "3", "4", "5", "6", "7", "8", "9">>
UpperCase == <<"A", "B", "C", "D", "E", "F", "G", "H", "I", "J", "K", "L", "M", "N", "O", "P", "Q", "R", "S", "T", "U", "V", "W", "X", "Y", "Z", "Å", "Μ">>
LowerCase == <<"a", "b", "c", "d", "e", "f", "g", "h", "i", "j", "k", "l", "m", "n", "o", "p", "q", "r", "s", "t", "u", "v", "w", "x", "y", "z", "å", "μ">>

IsDigit(c) == \E i \in DOMAIN Digits : Digits[i] = c
DigitValue(c) == (CHOOSE i \in DOMAIN Digits : Digits[i] = c) - 1
DigitChars(ds) == [i \in DOMAIN ds |-> Digits[ds[i] + 1]]

Lower(c) ==
  IF \E i \in DOMAIN UpperCase : UpperCase[i] = c
  THEN LowerCase[CHOOSE i \in DOMAIN UpperCase : UpperCase[i] = c]
  ELSE c
Upper(c) ==
  IF \E i \in DOMAIN LowerCase : LowerCase[i] = c
  THEN UpperCase[CHOOSE i \in DOMAIN LowerCase : LowerCase[i] = c]
  ELSE c

toLowerCase(s) == [i \in DOMAIN s |-> Lower(s[i])]
toUpperCase(s) == [i \in DOMAIN s |-> Upper(s[i])]

RECURSIVE trimStart(_)
trimStart(s) ==
  IF s # <<>> /\ Head(s) \in Whitespace THEN trimStart(Tail(s)) ELSE s

RECURSIVE trimEnd(_)
trimEnd(s) ==
  IF s # <<>> /\ s[Len(s)] \in Whitespace
  THEN trimEnd(SubSeq(s, 1, Len(s) - 1)) ELSE s

trim(s) == trimEnd(trimStart(s))

includes(s, sub) ==
  \E i \in 1..(Len(s) - Len(sub) + 1) : SubSeq(s, i, i + Len(sub) - 1) = sub

RECURSIVE Without(_, _)
\* s.replace(/[...]/g, ''): s without the characters of the class
Without(s, class) ==
  IF s = <<>> THEN <<>>
  ELSE (IF Head(s) \in class THEN <<>> ELSE <<Head(s)>>) \o Without(Tail(s), class)

RECURSIVE DigitsEnd(_, _)
\* the first position from i on that holds no decimal digit
DigitsEnd(s, i) ==
  IF i <= Len(s) /\ IsDigit(s[i]) THEN DigitsEnd(s, i + 1) ELSE i

\* the values of the digits at positions i .. j-1
DigitValues(s, i, j) == [n \in 1..(j - i) |-> DigitValue(s[i + n - 1])]

RECURSIVE SmallInt(_, _)
\* the number written with the digits ds, on top of acc
SmallInt(ds, acc) ==
  IF ds = <<>> THEN acc ELSE SmallInt(Tail(ds), acc * 10 + Head(ds))

RECURSIVE IntChars(_)
\* the decimal text of a natural number
IntChars(n) ==
  IF n < 10 THEN <<Digits[n + 1]>> ELSE IntChars(n \div 10) \o <<Digits[(n % 10) + 1]>>

\* parseFloat: the longest prefix of the text, after leading whitespace, that
\* is a decimal literal; NaN when there is none
parseFloat(str) ==
  LET s == trimStart(str)
      signed == s # <<>> /\ s[1] \in {"+", "-"}
      sgn == IF s # <<>> /\ s[1] = "-" THEN -1 ELSE 1
      i == IF signed THEN 2 ELSE 1
      j == DigitsEnd(s, i)
      dot == j <= Len(s) /\ s[j] = "."
      k == IF dot THEN DigitsEnd(s, j + 1) ELSE j
      mant == IF dot THEN DigitValues(s, i, j) \o DigitValues(s, j + 1, k)
              ELSE DigitValues(s, i, j)
      fracLen == IF dot THEN k - (j + 1) ELSE 0
      hasE == k <= Len(s) /\ s[k] \in {"e", "E"}
      eSigned == hasE /\ k + 1 <= Len(s) /\ s[k + 1] \in {"+", "-"}
      eStart == IF eSigned THEN k + 2 ELSE k + 1
      eEnd == IF hasE THEN DigitsEnd(s, eStart) ELSE eStart
      expo == IF eEnd > eStart
              THEN (IF eSigned /\ s[k + 1] = "-" THEN -1 ELSE 1)
                   * SmallInt(DigitValues(s, eStart, eEnd), 0)
              ELSE 0
  IN  IF SubSeq(s, i, Min(Len(s), i + 7)) = <<"I", "n", "f", "i", "n", "i", "t", "y">>
      THEN [k |-> "inf", s |-> sgn]
      ELSE IF mant = <<>> THEN NaN
      ELSE IF sgn = 1 THEN Lit(mant, expo - fracLen)
      ELSE Neg(Lit(mant, expo - fracLen))

\* floor(num / den + 1/2)
RoundHalfUp(num, den) ==
  BDivMod(BAdd(BMulSmall(num, 2), den), BMulSmall(den, 2)).q

\* the integer nearest to x * 10^p (the larger of two equally near), for
\* finite x >= 0
ScaledInt(x, p) ==
  IF x.m = <<>> THEN <<>>
  ELSE RoundHalfUp(BMul(BShl(x.m, Max(x.e, 0)), BPow10(Max(p, 0))),
                   BMul(BShl(<<1>>, Max(0 - x.e, 0)), BPow10(Max(0 - p, 0))))

\* x >= 10^k, exactly, for finite x > 0
GePow10(x, k) ==
  BCmp(BMul(BShl(x.m, Max(x.e, 0)), BPow10(Max(0 - k, 0))),
       BMul(BShl(<<1>>, Max(0 - x.e, 0)), BPow10(Max(k, 0)))) >= 0

DecadeNear(x, k) ==
  IF ~GePow10(x, k) THEN k - 1 ELSE IF GePow10(x, k + 1) THEN k + 1 ELSE k

\* the k with 10^k <= x < 10^(k+1), for finite x > 0
Decade(x) == DecadeNear(x, ((BBitLen(x.m) + x.e - 1) * 30103) \div 100000)

PadZeros(ds, n) == [i \in 1..(n - Len(ds)) |-> 0] \o ds

FixedChars(ds, f) ==
  DigitChars(SubSeq(ds, 1, Len(ds) - f)) \o <<".">>
  \o DigitChars(SubSeq(ds, Len(ds) - f + 1, Len(ds)))

FixedOf(n, f) == FixedChars(PadZeros(BToDigits(n), Max(f + 1, Len(BToDigits(n)))), f)

\* Number.prototype.toFixed for a finite x with |x| < 10^21 and f >= 1
toFixed(x, f) ==
  IF x.s = 1 THEN FixedOf(ScaledInt(x, f), f)
  ELSE <<"-">> \o FixedOf(ScaledInt(x, f), f)

ExponentChars(k) ==
  IF k >= 0 THEN <<"e", "+">> \o IntChars(k) ELSE <<"e", "-">> \o IntChars(0 - k)

ExpOf(ds, f, k) ==
  IF Len(ds) > f + 1
  THEN FixedChars(SubSeq(ds, 1, f + 1), f) \o ExponentChars(k + 1)
  ELSE FixedChars(ds, f) \o ExponentChars(k)

ExpAt(x, f, k) == ExpOf(BToDigits(ScaledInt(x, f - k)), f, k)

\* Number.prototype.toExponential for a finite x > 0 and f >= 1
toExponential(x, f) == ExpAt(x, f, Decade(x))
(***************************************************************************)
(* JavaScript objects: property lookup reaches Object.prototype, and an    *)
(* operand that is not a number makes an arithmetic result NaN.            *)
(***************************************************************************)
Null == [k |-> "null"]
Undefined == [k |-> "undefined"]
IsNumber(v) == v.k \in {"fin", "inf", "nan"}

ObjectPrototypeKeys ==
  { <<"c", "o", "n", "s", "t", "r", "u", "c", "t", "o", "r">>, <<"t", "o", "S", "t", "r", "i", "n", "g">>, <<"v", "a", "l", "u", "e", "O", "f">>, <<"h", "a", "s", "O", "w", "n", "P", "r", "o", "p", "e", "r", "t", "y">> }

\* obj[key]
Lookup(obj, key) ==
  IF key \in DOMAIN obj THEN obj[key]
  ELSE IF key \in ObjectPrototypeKeys THEN [k |-> "function"]
  ELSE Undefined

\* v.name
Field(v, name) == IF name \in DOMAIN v THEN v[name] ELSE Undefined

Truthy(v) == v.k \notin {"undefined", "null"}
ToNumber(v) == IF IsNumber(v) THEN v ELSE NaN
OrNull(v) == IF v.k = "undefined" THEN Null ELSE v

\* Array.prototype.find over the elements whose indices are hits
find(arr, hits) ==
  IF hits = {} THEN Undefined
  ELSE arr[CHOOSE i \in hits : \A j \in hits : i <= j]

(***************************************************************************)
(* spectrumData.js                                                         *)
(***************************************************************************)
SPEED_OF_LIGHT == Num(299792458, 0)
PLANCK_CONSTANT == Num(662607015, -42)
PLANCK_CONSTANT_EV == Lit(<<4, 1, 3, 5, 6, 6, 7, 6, 9, 6>>, -24)
ELECTRON_VOLT == Num(1602176634, -28)

Region(id, wMin, wMax, fMin, fMax, eMin, eMax) ==
  [k |-> "object", id |-> id,
   wavelengthMin |-> wMin, wavelengthMax |-> wMax,
   frequencyMin |-> fMin, frequencyMax |-> fMax,
   energyMin |-> eMin, energyMax |-> eMax]

\* A faulty catalog: ultraviolet ends at 370 nm, short of where visible starts
SPECTRUM_REGIONS_Gap ==
  << Region("gamma", Num(1, -15), Num(10, -12),
            Num(3, 19), Num(3, 23), Num(124000, 0), Num(1, 12)),
     Region("xray", Num(10, -12), Num(10, -9),
            Num(3, 16), Num(3, 19), Num(124, 0), Num(124000, 0)),
     Region("ultraviolet", Num(10, -9), Num(370, -9),
            Num(79, 13), Num(3, 16), Num(326, -2), Num(124, 0)),
     Region("visible", Num(380, -9), Num(700, -9),
            Num(43, 13), Num(79, 13), Num(177, -2), Num(326, -2)),
     Region("infrared", Num(700, -9), Num(1, -3),
            Num(3, 11), Num(43, 13), Num(124, -5), Num(177, -2)),
     Region("microwave", Num(1, -3), Num(1, -1),
            Num(3, 9), Num(3, 11), Num(124, -7), Num(124, -5)),
     Region("radio", Num(1, -1), Num(1, 4),
            Num(3, 4), Num(3, 9), Num(124, -12), Num(124, -7)) >>

SPECTRUM_REGIONS ==
  << Region("gamma",Num(1, -15), Num(10, -12),
            Num(3, 19), Num(3, 23), Num(124000, 0), Num(1, 12)),
     Region("xray", Num(10, -12), Num(10, -9),
            Num(3, 16), Num(3, 19), Num(124, 0), Num(124000, 0)),
     Region("ultraviolet", Num(10, -9), Num(380, -9),
            Num(79, 13), Num(3, 16), Num(326, -2), Num(124, 0)),
     Region("visible", Num(380, -9), Num(700, -9),
            Num(43, 13), Num(79, 13), Num(177, -2), Num(326, -2)),
     Region("infrared", Num(700, -9), Num(1, -3),
            Num(3, 11), Num(43, 13), Num(124, -5), Num(177, -2)),
     Region("microwave", Num(1, -3), Num(1, -1),
            Num(3, 9), Num(3, 11), Num(124, -7), Num(124, -5)),
     Region("radio", Num(1, -1), Num(1, 4),
            Num(3, 4), Num(3, 9), Num(124, -12), Num(124, -7)) >>

\* the indices of the regions r with r[lo] <= x <= r[hi]
Within(arr, x, lo, hi) ==
  {i \in DOMAIN arr : FGe(x, arr[i][lo]) /\ FLe(x, arr[i][hi])}

\* A faulty lookup: the last region holding the wavelength, not the first
getRegionByWavelength_LastMatch(wavelength) ==
  IF ~isFinite(wavelength) \/ FLe(wavelength, Zero) THEN Null
  ELSE IF Within(SPECTRUM_REGIONS, wavelength, "wavelengthMin", "wavelengthMax") = {}
       THEN Null
  ELSE SPECTRUM_REGIONS[
         CHOOSE i \in Within(SPECTRUM_REGIONS, wavelength,
                             "wavelengthMin", "wavelengthMax") :
           \A j \in Within(SPECTRUM_REGIONS, wavelength,
                           "wavelengthMin", "wavelengthMax") : j <= i]

getRegionByWavelength(wavelength) ==
  IF ~isFinite(wavelength) \/ FLe(wavelength, Zero) THEN Null
  ELSE OrNull(find(SPECTRUM_REGIONS,
                   Within(SPECTRUM_REGIONS, wavelength,
                          "wavelengthMin", "wavelengthMax")))

getRegionByFrequency(frequency) ==
  find(SPECTRUM_REGIONS,
       Within(SPECTRUM_REGIONS, frequency, "frequencyMin", "frequencyMax"))

getRegionByEnergy(energy) ==
  find(SPECTRUM_REGIONS,
       Within(SPECTRUM_REGIONS, energy, "energyMin", "energyMax"))

(***************************************************************************)
(* physicsCalculations.js: the six conversions                             *)
(***************************************************************************)
\* A faulty guard: zero is let through to the division
wavelengthToFrequency_ZeroPasses(wavelength) ==
  IF ~isFinite(wavelength) \/ FLt(wavelength, Zero) THEN NaN
  ELSE FDiv(SPEED_OF_LIGHT, wavelength)

wavelengthToFrequency(wavelength) ==
  IF ~isFinite(wavelength) \/ FLe(wavelength, Zero) THEN NaN
  ELSE FDiv(SPEED_OF_LIGHT, wavelength)

\* A faulty inverse: the speed of light in round figures
frequencyToWavelength_RoundFigure(frequency) ==
  IF ~isFinite(frequency) \/ FLe(frequency, Zero) THEN NaN
  ELSE FDiv(Num(3, 8), frequency)

frequencyToWavelength(frequency) ==
  IF ~isFinite(frequency) \/ FLe(frequency, Zero) THEN NaN
  ELSE FDiv(SPEED_OF_LIGHT, frequency)

\* A faulty energy: Planck's constant cut to five significant digits
frequencyToEnergyEV_ShortPlanck(frequency) ==
  IF ~isFinite(frequency) \/ FLe(frequency, Zero) THEN NaN
  ELSE FMul(Num(41356, -19), frequency)

frequencyToEnergyEV(frequency) ==
  IF ~isFinite(frequency) \/ FLe(frequency, Zero) THEN NaN
  ELSE FMul(PLANCK_CONSTANT_EV, frequency)

wavelengthToEnergyEV(wavelength) ==
  IF ~isFinite(wavelength) \/ FLe(wavelength, Zero) THEN NaN
  ELSE FDiv(FMul(PLANCK_CONSTANT_EV, SPEED_OF_LIGHT), wavelength)

energyEVToWavelength(energy) ==
  IF ~isFinite(energy) \/ FLe(energy, Zero) THEN NaN
  ELSE FDiv(FMul(PLANCK_CONSTANT_EV, SPEED_OF_LIGHT), energy)

energyEVToFrequency(energy) ==
  IF ~isFinite(energy) \/ FLe(energy, Zero) THEN NaN
  ELSE FDiv(energy, PLANCK_CONSTANT_EV)

(***************************************************************************)
(* physicsCalculations.js: formatting                                      *)
(***************************************************************************)
formatWavelength(wavelength) ==
  IF ~isFinite(wavelength) \/ FLe(wavelength, Zero)
  THEN Str(<<"I", "n", "v", "a", "l", "i", "d", " ", "w", "a", "v", "e", "l", "e", "n", "g", "t", "h">>)
  ELSE IF FGe(wavelength, Num(1, -3))
       THEN IF FGe(wavelength, Num(1, 0))
            THEN Str(toExponential(wavelength, 2) \o <<" ", "m">>)
            ELSE Str(toFixed(FMul(wavelength, Num(1000, 0)), 2) \o <<" ", "m", "m">>)
  ELSE IF FGe(wavelength, Num(1, -6))
       THEN Str(toFixed(FMul(wavelength, Num(1, 6)), 2) \o <<" ", "μ", "m">>)
  ELSE IF FGe(wavelength, Num(1, -9))
       THEN Str(toFixed(FMul(wavelength, Num(1, 9)), 2) \o <<" ", "n", "m">>)
  ELSE IF FGe(wavelength, Num(1, -12))
       THEN Str(toFixed(FMul(wavelength, Num(1, 12)), 2) \o <<" ", "p", "m">>)
  ELSE Str(toExponential(wavelength, 2) \o <<" ", "m">>)

\* A faulty table: the GHz bracket is missing
formatFrequency_NoGHz(frequency) ==
  IF ~isFinite(frequency) \/ FLe(frequency, Zero)
  THEN Str(<<"I", "n", "v", "a", "l", "i", "d", " ", "f", "r", "e", "q", "u", "e", "n", "c", "y">>)
  ELSE IF FGe(frequency, Num(1, 15))
       THEN Str(toFixed(FDiv(frequency, Num(1, 15)), 2) \o <<" ", "P", "H", "z">>)
  ELSE IF FGe(frequency, Num(1, 12))
       THEN Str(toFixed(FDiv(frequency, Num(1, 12)), 2) \o <<" ", "T", "H", "z">>)
  ELSE IF FGe(frequency, Num(1, 6))
       THEN Str(toFixed(FDiv(frequency, Num(1, 6)), 2) \o <<" ", "M", "H", "z">>)
  ELSE IF FGe(frequency, Num(1, 3))
       THEN Str(toFixed(FDiv(frequency, Num(1, 3)), 2) \o <<" ", "k", "H", "z">>)
  ELSE Str(toFixed(frequency, 2) \o <<" ", "H", "z">>)

formatFrequency(frequency) ==
  IF ~isFinite(frequency) \/ FLe(frequency, Zero)
  THEN Str(<<"I", "n", "v", "a", "l", "i", "d", " ", "f", "r", "e", "q", "u", "e", "n", "c", "y">>)
  ELSE IF FGe(frequency, Num(1, 15))
       THEN Str(toFixed(FDiv(frequency, Num(1, 15)), 2) \o <<" ", "P", "H", "z">>)
  ELSE IF FGe(frequency, Num(1, 12))
       THEN Str(toFixed(FDiv(frequency, Num(1, 12)), 2) \o <<" ", "T", "H", "z">>)
  ELSE IF FGe(frequency, Num(1, 9))
       THEN Str(toFixed(FDiv(frequency, Num(1, 9)), 2) \o <<" ", "G", "H", "z">>)
  ELSE IF FGe(frequency, Num(1, 6))
       THEN Str(toFixed(FDiv(frequency, Num(1, 6)), 2) \o <<" ", "M", "H", "z">>)
  ELSE IF FGe(frequency, Num(1, 3))
       THEN Str(toFixed(FDiv(frequency, Num(1, 3)), 2) \o <<" ", "k", "H", "z">>)
  ELSE Str(toFixed(frequency, 2) \o <<" ", "H", "z">>)

formatEnergy(energy) ==
  IF ~isFinite(energy) \/ FLe(energy, Zero)
  THEN Str(<<"I", "n", "v", "a", "l", "i", "d", " ", "e", "n", "e", "r", "g", "y">>)
  ELSE IF FGe(energy, Num(1, 9))
       THEN Str(toFixed(FDiv(energy, Num(1, 9)), 2) \o <<" ", "G", "e", "V">>)
  ELSE IF FGe(energy, Num(1, 6))
       THEN Str(toFixed(FDiv(energy, Num(1, 6)), 2) \o <<" ", "M", "e", "V">>)
  ELSE IF FGe(energy, Num(1, 3))
       THEN Str(toFixed(FDiv(energy, Num(1, 3)), 2) \o <<" ", "k", "e", "V">>)
  ELSE IF FGe(energy, Num(1, 0))
       THEN Str(toFixed(energy, 2) \o <<" ", "e", "V">>)
  ELSE IF FGe(energy, Num(1, -3))
       THEN Str(toFixed(FMul(energy, Num(1, 3)), 2) \o <<" ", "m", "e", "V">>)
  ELSE Str(toExponential(energy, 2) \o <<" ", "e", "V">>)

(***************************************************************************)
(* physicsCalculations.js: parsing                                         *)
(***************************************************************************)
safeParseFloat(input) ==
  IF input.k # "string" \/ input.chars = <<>> \/ trim(input.chars) = <<>>
  THEN NaN
  ELSE IF \/ trim(input.chars) = <<"n", "u", "l", "l">>
          \/ trim(input.chars) = <<"u", "n", "d", "e", "f", "i", "n", "e", "d">>
          \/ includes(trim(input.chars), <<"/">>)
          \/ includes(trim(input.chars), <<"I", "n", "f", "i", "n", "i", "t", "y">>)
          \/ includes(trim(input.chars), <<"N", "a", "N">>)
       THEN NaN
  ELSE IF \/ isNaN(parseFloat(trim(input.chars)))
          \/ ~isFinite(parseFloat(trim(input.chars)))
          \/ FLe(parseFloat(trim(input.chars)), Zero)
       THEN NaN
  ELSE parseFloat(trim(input.chars))

\* the character class [0-9.\-+e\s]
NumberChars == {Digits[i] : i \in DOMAIN Digits} \cup {".", "-", "+", "e"} \cup Whitespace

\* input.toLowerCase().replace(/[0-9.\-+e\s]/g, '')
UnitOf(input) == Without(toLowerCase(input.chars), NumberChars)

WavelengthIn(value, unit) ==
  CASE unit = <<"k", "m">> -> FMul(value, Num(1, 3))
    [] unit = <<"m">> -> value
    [] unit = <<"c", "m">> -> FMul(value, Num(1, -2))
    [] unit = <<"m", "m">> -> FMul(value, Num(1, -3))
    [] unit \in {<<"μ", "m">>, <<"u", "m">>, <<"m", "i", "c", "r", "o", "n">>, <<"m", "i", "c", "r", "o", "m", "e", "t", "e", "r", "s">>} ->
         FMul(value, Num(1, -6))
    [] unit \in {<<"n", "m">>, <<"n", "a", "n", "o", "m", "e", "t", "e", "r", "s">>} -> FMul(value, Num(1, -9))
    [] unit \in {<<"p", "m">>, <<"p", "i", "c", "o", "m", "e", "t", "e", "r", "s">>} -> FMul(value, Num(1, -12))
    [] unit \in {<<"f", "m">>, <<"f", "e", "m", "t", "o", "m", "e", "t", "e", "r", "s">>} -> FMul(value, Num(1, -15))
    [] unit \in {<<"å">>, <<"a", "n", "g", "s", "t", "r", "o", "m">>, <<"a", "n", "g", "s", "t", "r", "o", "m", "s">>} -> FMul(value, Num(1, -10))
    [] OTHER -> value

parseWavelength(input) ==
  IF isNaN(safeParseFloat(input)) THEN NaN
  ELSE WavelengthIn(safeParseFloat(input), UnitOf(input))

FrequencyIn(value, unit) ==
  CASE unit = <<"t", "h", "z">> -> FMul(value, Num(1, 12))
    [] unit = <<"g", "h", "z">> -> FMul(value, Num(1, 9))
    [] unit = <<"m", "h", "z">> -> FMul(value, Num(1, 6))
    [] unit = <<"k", "h", "z">> -> FMul(value, Num(1, 3))
    [] unit = <<"h", "z">> -> value
    [] unit = <<"p", "h", "z">> -> FMul(value, Num(1, 15))
    [] OTHER -> value

parseFrequency(input) ==
  IF isNaN(safeParseFloat(input)) THEN NaN
  ELSE FrequencyIn(safeParseFloat(input), UnitOf(input))

EnergyIn(value, unit) ==
  CASE unit = <<"t", "e", "v">> -> FMul(value, Num(1, 12))
    [] unit = <<"g", "e", "v">> -> FMul(value, Num(1, 9))
    [] unit = <<"m", "e", "v">> -> FMul(value, Num(1, 6))
    [] unit = <<"k", "e", "v">> -> FMul(value, Num(1, 3))
    [] unit = <<"e", "v">> -> value
    [] unit \in {<<"m", "e", "v", "_", "m", "i", "l", "l", "i">>, <<"m", "e", "v", "_", "m">>} -> FMul(value, Num(1, -3))
    [] unit \in {<<"j">>, <<"j", "o", "u", "l", "e", "s">>} -> FDiv(value, Num(1602176634, -28))
    [] OTHER -> value

parseEnergy(input) ==
  IF isNaN(safeParseFloat(input)) THEN NaN
  ELSE EnergyIn(safeParseFloat(input), UnitOf(input))

(***************************************************************************)
(* unitConversions.js                                                      *)
(***************************************************************************)
Unit(name, symbol, factor) ==
  [k |-> "object", name |-> name, symbol |-> symbol, factor |-> factor]

WAVELENGTH_UNITS ==
  <<"m">> :> Unit(<<"m", "e", "t", "e", "r", "s">>, <<"m">>, Num(1, 0))
  @@ <<"c", "m">> :> Unit(<<"c", "e", "n", "t", "i", "m", "e", "t", "e", "r", "s">>, <<"c", "m">>, Num(1, -2))
  @@ <<"m", "m">> :> Unit(<<"m", "i", "l", "l", "i", "m", "e", "t", "e", "r", "s">>, <<"m", "m">>, Num(1, -3))
  @@ <<"μ", "m">> :> Unit(<<"m", "i", "c", "r", "o", "m", "e", "t", "e", "r", "s">>, <<"μ", "m">>, Num(1, -6))
  @@ <<"n", "m">> :> Unit(<<"n", "a", "n", "o", "m", "e", "t", "e", "r", "s">>, <<"n", "m">>, Num(1, -9))
  @@ <<"p", "m">> :> Unit(<<"p", "i", "c", "o", "m", "e", "t", "e", "r", "s">>, <<"p", "m">>, Num(1, -12))
  @@ <<"f", "m">> :> Unit(<<"f", "e", "m", "t", "o", "m", "e", "t", "e", "r", "s">>, <<"f", "m">>, Num(1, -15))
  @@ <<"Å">> :> Unit(<<"a", "n", "g", "s", "t", "r", "o", "m", "s">>, <<"Å">>, Num(1, -10))
  @@ <<"k", "m">> :> Unit(<<"k", "i", "l", "o", "m", "e", "t", "e", "r", "s">>, <<"k", "m">>, Num(1, 3))

FREQUENCY_UNITS ==
  <<"H", "z">> :> Unit(<<"h", "e", "r", "t", "z">>, <<"H", "z">>, Num(1, 0))
  @@ <<"k", "H", "z">> :> Unit(<<"k", "i", "l", "o", "h", "e", "r", "t", "z">>, <<"k", "H", "z">>, Num(1, 3))
  @@ <<"M", "H", "z">> :> Unit(<<"m", "e", "g", "a", "h", "e", "r", "t", "z">>, <<"M", "H", "z">>, Num(1, 6))
  @@ <<"G", "H", "z">> :> Unit(<<"g", "i", "g", "a", "h", "e", "r", "t", "z">>, <<"G", "H", "z">>, Num(1, 9))
  @@ <<"T", "H", "z">> :> Unit(<<"t", "e", "r", "a", "h", "e", "r", "t", "z">>, <<"T", "H", "z">>, Num(1, 12))
  @@ <<"P", "H", "z">> :> Unit(<<"p", "e", "t", "a", "h", "e", "r", "t", "z">>, <<"P", "H", "z">>, Num(1, 15))

ENERGY_UNITS ==
  <<"e", "V">> :> Unit(<<"e", "l", "e", "c", "t", "r", "o", "n", " ", "v", "o", "l", "t", "s">>, <<"e", "V">>, Num(1, 0))
  @@ <<"m", "e", "V">> :> Unit(<<"m", "i", "l", "l", "i", "e", "l", "e", "c", "t", "r", "o", "n", " ", "v", "o", "l", "t", "s">>, <<"m", "e", "V">>, Num(1, -3))
  @@ <<"k", "e", "V">> :> Unit(<<"k", "i", "l", "o", "e", "l", "e", "c", "t", "r", "o", "n", " ", "v", "o", "l", "t", "s">>, <<"k", "e", "V">>, Num(1, 3))
  @@ <<"M", "e", "V">> :> Unit(<<"m", "e", "g", "a", "e", "l", "e", "c", "t", "r", "o", "n", " ", "v", "o", "l", "t", "s">>, <<"M", "e", "V">>, Num(1, 6))
  @@ <<"G", "e", "V">> :> Unit(<<"g", "i", "g", "a", "e", "l", "e", "c", "t", "r", "o", "n", " ", "v", "o", "l", "t", "s">>, <<"G", "e", "V">>, Num(1, 9))
  @@ <<"T", "e", "V">> :> Unit(<<"t", "e", "r", "a", "e", "l", "e", "c", "t", "r", "o", "n", " ", "v", "o", "l", "t", "s">>, <<"T", "e", "V">>, Num(1, 12))
  @@ <<"J">> :> Unit(<<"j", "o", "u", "l", "e", "s">>, <<"J">>, Lit(<<6, 2, 4, 1, 5, 0, 9, 0, 7, 4>>, 9))

convertWavelength(value, fromUnit, toUnit) ==
  IF \/ ~Truthy(Lookup(WAVELENGTH_UNITS, fromUnit))
     \/ ~Truthy(Lookup(WAVELENGTH_UNITS, toUnit))
  THEN Throw(<<"I", "n", "v", "a", "l", "i", "d", " ", "w", "a", "v", "e", "l", "e", "n", "g", "t", "h", " ", "u", "n", "i", "t", ":", " ">> \o fromUnit \o <<" ", "o", "r", " ">> \o toUnit)
  ELSE FDiv(FMul(value, ToNumber(Field(Lookup(WAVELENGTH_UNITS, fromUnit), "factor"))),
            ToNumber(Field(Lookup(WAVELENGTH_UNITS, toUnit), "factor")))

convertFrequency(value, fromUnit, toUnit) ==
  IF \/ ~Truthy(Lookup(FREQUENCY_UNITS, fromUnit))
     \/ ~Truthy(Lookup(FREQUENCY_UNITS, toUnit))
  THEN Throw(<<"I", "n", "v", "a", "l", "i", "d", " ", "f", "r", "e", "q", "u", "e", "n", "c", "y", " ", "u", "n", "i", "t", ":", " ">> \o fromUnit \o <<" ", "o", "r", " ">> \o toUnit)
  ELSE FDiv(FMul(value, ToNumber(Field(Lookup(FREQUENCY_UNITS, fromUnit), "factor"))),
            ToNumber(Field(Lookup(FREQUENCY_UNITS, toUnit), "factor")))

convertEnergy(value, fromUnit, toUnit) ==
  IF \/ ~Truthy(Lookup(ENERGY_UNITS, fromUnit))
     \/ ~Truthy(Lookup(ENERGY_UNITS, toUnit))
  THEN Throw(<<"I", "n", "v", "a", "l", "i", "d", " ", "e", "n", "e", "r", "g", "y", " ", "u", "n", "i", "t", ":", " ">> \o fromUnit \o <<" ", "o", "r", " ">> \o toUnit)
  ELSE FDiv(FMul(value, ToNumber(Field(Lookup(ENERGY_UNITS, fromUnit), "factor"))),
            ToNumber(Field(Lookup(ENERGY_UNITS, toUnit), "factor")))
(***************************************************************************)
(* unitConversions.js: the best unit for display                           *)
(***************************************************************************)
\* Math.abs
Abs(x) == IF x.k = "nan" THEN x ELSE [x EXCEPT !.s = 1]

\* the object { value, unit, symbol }
Best(value, symbol) ==
  [k |-> "object", value |-> value, unit |-> symbol, symbol |-> symbol]

getBestWavelengthUnit(wavelengthInMeters) ==
  IF FGe(Abs(wavelengthInMeters), Num(1, 3)) THEN Best(FDiv(wavelengthInMeters, Num(1, 3)), <<"k", "m">>)
  ELSE IF FGe(Abs(wavelengthInMeters), Num(1, 0)) THEN Best(wavelengthInMeters, <<"m">>)
  ELSE IF FGe(Abs(wavelengthInMeters), Num(1, -2)) THEN Best(FDiv(wavelengthInMeters, Num(1, -2)), <<"c", "m">>)
  ELSE IF FGe(Abs(wavelengthInMeters), Num(1, -3)) THEN Best(FDiv(wavelengthInMeters, Num(1, -3)), <<"m", "m">>)
  ELSE IF FGe(Abs(wavelengthInMeters), Num(1, -6)) THEN Best(FDiv(wavelengthInMeters, Num(1, -6)), <<"μ", "m">>)
  ELSE IF FGe(Abs(wavelengthInMeters), Num(1, -9)) THEN Best(FDiv(wavelengthInMeters, Num(1, -9)), <<"n", "m">>)
  ELSE IF FGe(Abs(wavelengthInMeters), Num(1, -12)) THEN Best(FDiv(wavelengthInMeters, Num(1, -12)), <<"p", "m">>)
  ELSE IF FGe(Abs(wavelengthInMeters), Num(1, -15)) THEN Best(FDiv(wavelengthInMeters, Num(1, -15)), <<"f", "m">>)
  ELSE Best(wavelengthInMeters, <<"m">>)

getBestFrequencyUnit(frequencyInHz) ==
  IF FGe(Abs(frequencyInHz), Num(1, 15)) THEN Best(FDiv(frequencyInHz, Num(1, 15)), <<"P", "H", "z">>)
  ELSE IF FGe(Abs(frequencyInHz), Num(1, 12)) THEN Best(FDiv(frequencyInHz, Num(1, 12)), <<"T", "H", "z">>)
  ELSE IF FGe(Abs(frequencyInHz), Num(1, 9)) THEN Best(FDiv(frequencyInHz, Num(1, 9)), <<"G", "H", "z">>)
  ELSE IF FGe(Abs(frequencyInHz), Num(1, 6)) THEN Best(FDiv(frequencyInHz, Num(1, 6)), <<"M", "H", "z">>)
  ELSE IF FGe(Abs(frequencyInHz), Num(1, 3)) THEN Best(FDiv(frequencyInHz, Num(1, 3)), <<"k", "H", "z">>)
  ELSE Best(frequencyInHz, <<"H", "z">>)

\* A faulty table: the meV bracket is missing
getBestEnergyUnit_NoMilli(energyInEV) ==
  IF FGe(Abs(energyInEV), Num(1, 12)) THEN Best(FDiv(energyInEV, Num(1, 12)), <<"T", "e", "V">>)
  ELSE IF FGe(Abs(energyInEV), Num(1, 9)) THEN Best(FDiv(energyInEV, Num(1, 9)), <<"G", "e", "V">>)
  ELSE IF FGe(Abs(energyInEV), Num(1, 6)) THEN Best(FDiv(energyInEV, Num(1, 6)), <<"M", "e", "V">>)
  ELSE IF FGe(Abs(energyInEV), Num(1, 3)) THEN Best(FDiv(energyInEV, Num(1, 3)), <<"k", "e", "V">>)
  ELSE IF FGe(Abs(energyInEV), Num(1, 0)) THEN Best(energyInEV, <<"e", "V">>)
  ELSE Best(energyInEV, <<"e", "V">>)

getBestEnergyUnit(energyInEV) ==
  IF FGe(Abs(energyInEV), Num(1, 12)) THEN Best(FDiv(energyInEV, Num(1, 12)), <<"T", "e", "V">>)
  ELSE IF FGe(Abs(energyInEV), Num(1, 9)) THEN Best(FDiv(energyInEV, Num(1, 9)), <<"G", "e", "V">>)
  ELSE IF FGe(Abs(energyInEV), Num(1, 6)) THEN Best(FDiv(energyInEV, Num(1, 6)), <<"M", "e", "V">>)
  ELSE IF FGe(Abs(energyInEV), Num(1, 3)) THEN Best(FDiv(energyInEV, Num(1, 3)), <<"k", "e", "V">>)
  ELSE IF FGe(Abs(energyInEV), Num(1, 0)) THEN Best(energyInEV, <<"e", "V">>)
  ELSE IF FGe(Abs(energyInEV), Num(1, -3)) THEN Best(FDiv(energyInEV, Num(1, -3)), <<"m", "e", "V">>)
  ELSE Best(energyInEV, <<"e", "V">>)

(***************************************************************************)
(* The state: the calls a client (the UI layer) has made, oldest first.    *)
(* A client starts from a value of its own and may feed the number a call  *)
(* returned to the next call, as the UI derives frequency and energy from  *)
(* the selected wavelength.                                                *)
(***************************************************************************)
VARIABLES calls, mathLog10, mathPowUlp, mathLogUlp,
          appContent, conversionPanel, panelEffectPending, lastEvent,
          theme, resolvedTheme, themeEffectPending, mediaListener,
          storedTheme, prefersDark, themeCalls,
          preferences, storedPreferences, preferencesEffectPending, preferencesCalls,
          pageEvents, barWavelengths,
          boundary, boundaryEvents,
          debounce, timers, clock, debouncedCalls, invocations

\* the JavaScript engine's Math.log10 and Math.pow, fixed for a run
mathVars == <<mathLog10, mathPowUlp, mathLogUlp>>

\* the interface: AppContent's render, the conversion panel's own state, its
\* effect when scheduled, and the last event handled
uiVars == <<appContent, conversionPanel, panelEffectPending, lastEvent>>

\* ThemeProvider: its state, its scheduled effects and registered media
\* listener, localStorage's 'theme', the system's colour scheme, and the
\* mounts and theme calls so far
themeVars == <<theme, resolvedTheme, themeEffectPending, mediaListener,
               storedTheme, prefersDark, themeCalls>>

\* PreferencesProvider: its state, its scheduled effect, localStorage's
\* 'user-preferences', and the mounts and calls so far
preferencesVars == <<preferences, storedPreferences, preferencesEffectPending,
                     preferencesCalls>>

\* the page: the events handled since it was mounted, and what
\* handleSpectrumClick and calculateIndicatorPosition compute under this
\* engine at each offset clicked (pure functions, worked out once for a run)
spectrumVars == <<pageEvents, barWavelengths>>

\* ErrorBoundary: this.state, and what has happened to it since it was
\* mounted
boundaryVars == <<boundary, boundaryEvents>>

\* a component that uses useDebounce: the hook's props and refs, the
\* browser's pending timers and clock, the calls of the debounced function
\* and the invocations of the callback so far
debounceVars == <<debounce, timers, clock, debouncedCalls, invocations>>

componentVars == <<boundaryVars, debounceVars>>

\* the providers and components beside the page and the theme
otherVars == <<preferencesVars, spectrumVars, componentVars>>

vars == <<calls, mathVars, uiVars, themeVars, otherVars>>

\* the longest chain of calls a client makes before starting over
MaxCalls == 2

\* the events a user makes on the page after it is mounted
MaxEvents == 2

\* Number.MIN_VALUE, Number.MAX_VALUE and 2^n for a normal exponent n
MIN_VALUE == Fin(1, <<1>>, EMin)
MAX_VALUE == Fin(1, <<BASE - 1, BASE - 1, BASE - 1, 255>>, EMax)
TwoTo(n) == Fin(1, BShl(<<1>>, MantBits - 1), n - (MantBits - 1))

InvalidNumbers == {Zero, Neg(TwoTo(0)), Neg(MIN_VALUE), NaN, PosInf, NegInf}

ExtremeNumbers ==
  {MIN_VALUE, TwoTo(-1000), TwoTo(-990), TwoTo(990), TwoTo(1010), MAX_VALUE}

WavelengthInputs ==
  { Num(1, -15), Num(10, -12), Num(10, -9), Num(380, -9), Num(700, -9),
    Num(1, -3), Num(1, -1), Num(1, 4),
    Num(550, -9), Num(1, -6), Num(100, -9), Num(1, -9), Num(1, -12),
    Num(450, -9), Num(1, 0), Num(1, 2), Num(9995, -15), Num(999, -18),
    Num(10001, 0), Num(1, 6), Num(1, -20), Num(1, 20),
    Num(999995, -9), Num(5, -13), Num(1, 5) }
  \cup ExtremeNumbers \cup InvalidNumbers

FrequencyInputs ==
  { Num(5, 14), Num(1, 9), Num(24, 8), Num(1, 12), Num(1, 6), Num(1, 3),
    Num(1, 15), Num(999, 0), Num(5, -1), Num(3, 19), Num(3, 4), Num(79, 13),
    Num(1, 18), Num(1, 25), Num(1, 0), Num(999995, 3), Num(999994, 0),
    Num(1, -5) }
  \cup InvalidNumbers

EnergyInputs ==
  { Num(225, -2), Num(1, 0), Num(1000, 0), Num(1, 6), Num(1, 9), Num(1, -3),
    Num(5, -4), Num(124000, 0), Num(326, -2), Num(1, 10), Num(1, 12),
    Num(511, 3), Num(999995, -3), Num(1005, -3), Num(1, 15) }
  \cup InvalidNumbers

\* the magnitudes the interface shows: between 2^-97 and 2^93
Displayable(x) == isFinite(x) /\ ~IsZero(x) => x.e > -150 /\ x.e < 40

NumberTexts == {<<"2", ".", "5">>, <<"1", "e", "3">>, <<"5", "0", "0">>}
Separators == {<<>>, <<" ">>}
Spellings(u) == {u, toLowerCase(u), toUpperCase(u)}

InvalidTexts ==
  { <<>>, <<" ", " ">>, <<"a", "b", "c">>, <<"n", "u", "l", "l">>, <<"1", "/", "2">>, <<"-", "5", " ", "n", "m">>, <<"0">>, <<"I", "n", "f", "i", "n", "i", "t", "y">>,
    <<"N", "a", "N">>, <<"5", " ", "n", "u", "l", "l">>, <<"5", "u", "n", "d", "e", "f", "i", "n", "e", "d">>, <<"3", " ", "N", "a", "N">>,
    <<"-", "I", "n", "f", "i", "n", "i", "t", "y", " ", "H", "z">>, <<"n", "m">> }

WavelengthUnitTexts ==
  DOMAIN WAVELENGTH_UNITS
  \cup {<<"u", "m">>, <<"m", "i", "c", "r", "o", "n">>, <<"m", "i", "c", "r", "o", "m", "e", "t", "e", "r", "s">>, <<"n", "a", "n", "o", "m", "e", "t", "e", "r", "s">>, <<"a", "n", "g", "s", "t", "r", "o", "m">>, <<>>}

FrequencyUnitTexts == DOMAIN FREQUENCY_UNITS \cup {<<"r", "p", "m">>, <<>>}

EnergyUnitTexts ==
  DOMAIN ENERGY_UNITS \cup {<<"j", "o", "u", "l", "e", "s">>, <<"m", "e", "v", "_", "m", "i", "l", "l", "i">>, <<"e", "r", "g">>, <<>>}

\* the texts a user types: a number, then a unit in some letter case
Texts(units) ==
  {Str(n \o sep \o v) :
     n \in NumberTexts, sep \in Separators,
     v \in UNION {Spellings(u) : u \in units}}
  \cup {Str(t) : t \in InvalidTexts}

ConvertValues == {Num(1, 0), Num(550, 0)}
UnknownUnits == {<<"c", "o", "n", "s", "t", "r", "u", "c", "t", "o", "r">>, <<"t", "o", "S", "t", "r", "i", "n", "g">>, <<"f", "u", "r", "l", "o", "n", "g">>, <<>>}

WavelengthSources == {"frequencyToWavelength", "energyEVToWavelength"}
FrequencySources == {"wavelengthToFrequency", "energyEVToFrequency"}
EnergySources == {"wavelengthToEnergyEV", "frequencyToEnergyEV"}

Last == calls[Len(calls)]

\* the arguments a client passes: its own values at first, then the number
\* the previous call returned, when that call produced this kind of quantity
Args(fresh, sources) ==
  IF calls = <<>> THEN fresh
  ELSE IF Last.fn \in sources /\ IsNumber(Last.ret) THEN {Last.ret}
  ELSE {}

Invoke(name, x, r) ==
  /\ calls' = Append(calls, [fn |-> name, arg |-> x, ret |-> r])
  /\ UNCHANGED <<mathVars, uiVars, themeVars, otherVars>>

CallWavelengthToFrequency ==
  /\ Len(calls) < MaxCalls
  /\ \E x \in Args(WavelengthInputs, WavelengthSources) :
       Invoke("wavelengthToFrequency", x, wavelengthToFrequency(x))

CallFrequencyToWavelength ==
  /\ Len(calls) < MaxCalls
  /\ \E x \in Args(FrequencyInputs, FrequencySources) :
       Invoke("frequencyToWavelength", x, frequencyToWavelength(x))

CallFrequencyToEnergyEV ==
  /\ Len(calls) < MaxCalls
  /\ \E x \in Args(FrequencyInputs, FrequencySources) :
       Invoke("frequencyToEnergyEV", x, frequencyToEnergyEV(x))

CallWavelengthToEnergyEV ==
  /\ Len(calls) < MaxCalls
  /\ \E x \in Args(WavelengthInputs, WavelengthSources) :
       Invoke("wavelengthToEnergyEV", x, wavelengthToEnergyEV(x))

CallEnergyEVToWavelength ==
  /\ Len(calls) < MaxCalls
  /\ \E x \in Args(EnergyInputs, EnergySources) :
       Invoke("energyEVToWavelength", x, energyEVToWavelength(x))

CallEnergyEVToFrequency ==
  /\ Len(calls) < MaxCalls
  /\ \E x \in Args(EnergyInputs, EnergySources) :
       Invoke("energyEVToFrequency", x, energyEVToFrequency(x))

CallGetRegionByWavelength ==
  /\ Len(calls) < MaxCalls
  /\ \E x \in Args(WavelengthInputs, WavelengthSources) :
       Invoke("getRegionByWavelength", x, getRegionByWavelength(x))

CallGetRegionByFrequency ==
  /\ Len(calls) < MaxCalls
  /\ \E x \in Args(FrequencyInputs, FrequencySources) :
       Invoke("getRegionByFrequency", x, getRegionByFrequency(x))

CallGetRegionByEnergy ==
  /\ Len(calls) < MaxCalls
  /\ \E x \in Args(EnergyInputs, EnergySources) :
       Invoke("getRegionByEnergy", x, getRegionByEnergy(x))

CallFormatWavelength ==
  /\ Len(calls) < MaxCalls
  /\ \E x \in Args(WavelengthInputs, WavelengthSources) :
       /\ Displayable(x)
       /\ Invoke("formatWavelength", x, formatWavelength(x))

CallFormatFrequency ==
  /\ Len(calls) < MaxCalls
  /\ \E x \in Args(FrequencyInputs, FrequencySources) :
       /\ Displayable(x)
       /\ Invoke("formatFrequency", x, formatFrequency(x))

CallFormatEnergy ==
  /\ Len(calls) < MaxCalls
  /\ \E x \in Args(EnergyInputs, EnergySources) :
       /\ Displayable(x)
       /\ Invoke("formatEnergy", x, formatEnergy(x))

\* the texts a client parses: its own at first, then the text the previous
\* call returned, when that call formatted this kind of quantity
TextArgs(fresh, source) ==
  IF calls = <<>> THEN fresh
  ELSE IF Last.fn = source /\ Last.ret.k = "string" THEN {Last.ret}
  ELSE {}

CallParseWavelength ==
  /\ Len(calls) < MaxCalls
  /\ \E t \in TextArgs(Texts(WavelengthUnitTexts), "formatWavelength") :
       Invoke("parseWavelength", t, parseWavelength(t))

CallParseFrequency ==
  /\ Len(calls) < MaxCalls
  /\ \E t \in TextArgs(Texts(FrequencyUnitTexts), "formatFrequency") :
       Invoke("parseFrequency", t, parseFrequency(t))

CallParseEnergy ==
  /\ Len(calls) < MaxCalls
  /\ \E t \in TextArgs(Texts(EnergyUnitTexts), "formatEnergy") :
       Invoke("parseEnergy", t, parseEnergy(t))

CallConvertWavelength ==
  /\ calls = <<>>
  /\ \E value \in ConvertValues :
       \E fromUnit, toUnit \in DOMAIN WAVELENGTH_UNITS \cup UnknownUnits :
         Invoke("convertWavelength", <<value, fromUnit, toUnit>>,
                convertWavelength(value, fromUnit, toUnit))

CallConvertFrequency ==
  /\ calls = <<>>
  /\ \E value \in ConvertValues :
       \E fromUnit, toUnit \in DOMAIN FREQUENCY_UNITS \cup UnknownUnits :
         Invoke("convertFrequency", <<value, fromUnit, toUnit>>,
                convertFrequency(value, fromUnit, toUnit))

CallConvertEnergy ==
  /\ calls = <<>>
  /\ \E value \in ConvertValues :
       \E fromUnit, toUnit \in DOMAIN ENERGY_UNITS \cup UnknownUnits :
         Invoke("convertEnergy", <<value, fromUnit, toUnit>>,
                convertEnergy(value, fromUnit, toUnit))

\* getBest*Unit take values of either sign
Signed(inputs) == inputs \cup {Neg(v) : v \in inputs}

CallGetBestWavelengthUnit ==
  /\ Len(calls) < MaxCalls
  /\ \E v \in Args(Signed(WavelengthInputs), WavelengthSources) :
       Invoke("getBestWavelengthUnit", v, getBestWavelengthUnit(v))

CallGetBestFrequencyUnit ==
  /\ Len(calls) < MaxCalls
  /\ \E v \in Args(Signed(FrequencyInputs), FrequencySources) :
       Invoke("getBestFrequencyUnit", v, getBestFrequencyUnit(v))

CallGetBestEnergyUnit ==
  /\ Len(calls) < MaxCalls
  /\ \E v \in Args(Signed(EnergyInputs), EnergySources) :
       Invoke("getBestEnergyUnit", v, getBestEnergyUnit(v))

\* the client starts over with a value of its own
StartOver == calls # <<>> /\ calls' = <<>> /\ UNCHANGED <<mathVars, uiVars, themeVars, otherVars>>

(***************************************************************************)
(* Math.log10 and Math.pow.  ECMAScript leaves their results               *)
(* implementation-approximated: where the exact result is a double the     *)
(* engines return it, elsewhere a double next to the exact result.  The    *)
(* model covers the arguments near powers of ten: log10 of a double within *)
(* a few units in the last place of 10^k, and 10^y for y within 2^-40 of   *)
(* an integer.                                                             *)
(***************************************************************************)
\* the sign of x - 10^k for finite x > 0
CmpPow10(x, k) ==
  BCmp(BMul(BShl(x.m, Max(x.e, 0)), BPow10(Max(0 - k, 0))),
       BMul(BShl(<<1>>, Max(0 - x.e, 0)), BPow10(Max(k, 0))))

\* the integer n as a double
IntNum(n) == IF n < 0 THEN Neg(Num(0 - n, 0)) ELSE Num(n, 0)

\* the k whose power of ten x is next to
PowerNear(x) == Decade(FMul(x, Num(1000001, -6)))

\* log10 x = k + log10(1 + eps) with |eps| < 2^-50 is less than a tenth of
\* a unit in the last place away from k: the nearest double is k
Log10Nearest(x) == IF isNaN(x) THEN NaN ELSE IntNum(PowerNear(x))

\* the other double next to log10 x, on the side of k where log10 x lies;
\* k itself when x is 10^k exactly
Log10Other(x) ==
  IF isNaN(x) \/ CmpPow10(x, PowerNear(x)) = 0 THEN Log10Nearest(x)
  ELSE IF CmpPow10(x, PowerNear(x)) > 0 THEN NextUp(Log10Nearest(x))
  ELSE NextDown(Log10Nearest(x))

\* the arguments of Math.log10 in the model
LogDomain ==
  {Num(1, -15), Num(1, -6), Num(1, 0), Num(1, 1), NextUp(Num(1, 1)),
   Num(1, 4), NaN}

\* the engines: each returns, at every argument, one of the two doubles
Engines ==
  {[v \in LogDomain |-> IF v \in far THEN Log10Other(v) ELSE Log10Nearest(v)] :
     far \in SUBSET {v \in LogDomain : Log10Other(v) # Log10Nearest(v)}}

(***************************************************************************)
(* Away from the powers of ten the logarithm and the power are computed    *)
(* by series in fixed point: a natural number f stands for f / 2^FracBits. *)
(* The series are carried to 2^-80 and the result is rounded once, so the  *)
(* double obtained is the nearest to the exact result unless the exact     *)
(* result lies within 2^-27 of a unit in the last place of the midpoint of *)
(* two doubles.                                                            *)
(***************************************************************************)
FracBits == 6 * LimbBits

One == BShl(<<1>>, FracBits)

\* a * b for fixed-point a and b
XMul(a, b) == IF a = <<>> \/ b = <<>> THEN <<>> ELSE BShr(BMul(a, b), FracBits)

RECURSIVE BFromGroupsAt(_, _)
BFromGroupsAt(gs, i) ==
  IF i = 0 THEN <<>>
  ELSE BAdd(BMulSmall(BFromGroupsAt(gs, i - 1), 10000),
            IF gs[i] = 0 THEN <<>> ELSE <<gs[i]>>)

\* the fixed-point number nearest below the decimal fraction written in
\* groups of four digits, the first group before the point
XFromDecimal(gs) ==
  BDivMod(BShl(BFromGroupsAt(gs, Len(gs)), FracBits), BPow10(4 * (Len(gs) - 1))).q

\* ln 10 = 2.3025 8509 2994 0456 8401 7991 4546 8436 ...
LN10 == XFromDecimal(<<2, 3025, 8509, 2994, 456, 8401, 7991, 4546, 8436>>)

\* ln 2 = 0.6931 4718 0559 9453 0941 7232 1214 5817 ...
LN2 == XFromDecimal(<<0, 6931, 4718, 559, 9453, 941, 7232, 1214, 5817>>)

\* The terms of a series are computed one after the other: binding the
\* next term over a singleton set has it computed before the step that uses
\* it, which keeps the evaluation shallow.
RECURSIVE ExpTerms(_, _, _, _)
\* sum + term + term * t / n + term * t^2 / (n (n + 1)) + ...
ExpTerms(t, term, n, sum) ==
  IF term = <<>> THEN sum
  ELSE CHOOSE total \in {ExpTerms(t, next, n + 1, more) :
                          next \in {BDivSmall(XMul(term, t), n)},
                          more \in {BAdd(sum, term)}} : TRUE

\* a^8
XSquare(a) == XMul(a, a)
XPow8(a) == XSquare(XSquare(XSquare(a)))

\* e^t for fixed-point 0 <= t < 4: (e^(t / 8))^8
XExp(t) ==
  CHOOSE power \in {XPow8(series) :
                     series \in {ExpTerms(eighth, One, 1, <<>>) : eighth \in {BShr(t, 3)}}} : TRUE

\* |y| in fixed point, for a finite y of magnitude below 2^15
XAbs(y) == IF y.e + FracBits >= 0 THEN BShl(y.m, y.e + FracBits)
           ELSE BShr(y.m, 0 - (y.e + FracBits))

\* the whole part of a fixed-point number, and what is left of it
XWhole(a) == Limb(BShr(a, FracBits), 1)
XFraction(a) == BSub(a, BShl(BShr(a, FracBits), FracBits))

\* floor(y), and y - floor(y) in fixed point
Floor(y) ==
  IF y.s = 1 \/ XFraction(XAbs(y)) = <<>> THEN y.s * XWhole(XAbs(y))
  ELSE 0 - XWhole(XAbs(y)) - 1
Fraction(y) ==
  IF y.s = 1 \/ XFraction(XAbs(y)) = <<>> THEN XFraction(XAbs(y))
  ELSE BSub(One, XFraction(XAbs(y)))

\* the double nearest to 10^y = 10^floor(y) * e^((y - floor(y)) ln 10)
Pow10Series(y) ==
  Ratio(1, BMul(XExp(XMul(Fraction(y), LN10)), BPow10(Max(Floor(y), 0))),
        BPow10(Max(0 - Floor(y), 0)), 0 - FracBits)

RECURSIVE AtanhTerms(_, _, _, _)
\* sum + p / n + p z2 / (n + 2) + p z2^2 / (n + 4) + ...
AtanhTerms(p, z2, n, sum) ==
  IF p = <<>> THEN sum
  ELSE CHOOSE total \in {AtanhTerms(next, z2, n + 2, more) :
                          next \in {XMul(p, z2)},
                          more \in {BAdd(sum, BDivSmall(p, n))}} : TRUE

\* x = Scaled(x) * 2^Scale(x) with 3/4 <= Scaled(x) < 3/2, for finite x > 0:
\* the numerator of Scaled(x) over 2^BBitLen(x.m)
High(x) == BCmp(BShl(x.m, 2), BShl(<<3>>, BBitLen(x.m))) >= 0
Scale(x) == x.e + BBitLen(x.m) - (IF High(x) THEN 0 ELSE 1)
ScaledNum(x) == IF High(x) THEN x.m ELSE BShl(x.m, 1)

\* z = (u - 1) / (u + 1) for u = Scaled(x): its magnitude in fixed point
LnArg(x) ==
  BDivMod(BShl(BDist(ScaledNum(x), BShl(<<1>>, BBitLen(x.m))), FracBits),
          BAdd(ScaledNum(x), BShl(<<1>>, BBitLen(x.m)))).q

\* 2 atanh z, for fixed-point 0 <= z < 1
TwiceAtanh(z) ==
  CHOOSE double \in {BShl(AtanhTerms(z, z2, 1, <<>>), 1) : z2 \in {XMul(z, z)}} : TRUE

\* |ln u| = 2 atanh |z|
LnScaled(x) == CHOOSE double \in {TwiceAtanh(z) : z \in {LnArg(x)}} : TRUE

Magnitude(n) == IF n < 0 THEN 0 - n ELSE n

\* ln x = Scale(x) ln 2 + ln u: its sign and its magnitude in fixed point
LnSign(x) == IF Scale(x) > 0 \/ (Scale(x) = 0 /\ ~High(x)) THEN 1 ELSE -1
LnJoin(scale, high, ln) ==
  IF scale = 0 THEN ln
  ELSE IF (scale > 0) = ~high THEN BAdd(BMulSmall(LN2, Magnitude(scale)), ln)
  ELSE BSub(BMulSmall(LN2, Magnitude(scale)), ln)
LnMag(x) == LnJoin(Scale(x), High(x), LnScaled(x))

\* the double nearest to sign * mag / ln 10
LogRatio(sign, mag) == IF mag = <<>> THEN Zero ELSE Ratio(sign, mag, LN10, 0)

\* the double nearest to log10 x = ln x / ln 10, for finite x > 0
Log10Series(x) == LogRatio(LnSign(x), LnMag(x))

\* n units in the last place above a finite non-zero x, for n in -1, 0, 1
Ulps(x, n) == IF n = 1 THEN NextUp(x) ELSE IF n = -1 THEN NextDown(x) ELSE x

\* Math.log10 away from the tabulated arguments: exact at the powers of ten
\* that are doubles, elsewhere within one unit in the last place of the
\* nearest double, as this engine rounds
Log10Engine(v) ==
  IF isNaN(v) \/ FLt(v, Zero) THEN NaN
  ELSE IF IsZero(v) THEN NegInf
  ELSE IF v.k = "inf" THEN PosInf
  ELSE IF CmpPow10(v, Decade(v)) = 0 THEN IntNum(Decade(v))
  ELSE Ulps(Log10Series(v), mathLogUlp)

Math_log10(v) == IF v \in DOMAIN mathLog10 THEN mathLog10[v] ELSE Log10Engine(v)

\* the integer nearest to a finite y of magnitude below 2^15
NearInt(y) ==
  IF IsZero(y) THEN 0
  ELSE y.s * Limb(BShr(BAdd(y.m, BShl(<<1>>, (0 - y.e) - 1)), 0 - y.e), 1)

\* |y - k| * 2^-y.e and the sign of y - k, for the integer k = NearInt(y)
OffsetMag(y, k) ==
  IF k = 0 THEN y.m
  ELSE BDist(y.m, BMulSmall(BShl(<<1>>, 0 - y.e), k * y.s))
OffsetSign(y, k) ==
  IF k = 0 THEN y.s ELSE y.s * BCmp(y.m, BMulSmall(BShl(<<1>>, 0 - y.e), k * y.s))

\* 1 + (y - k) * ln 10, as a fraction over 2^-y.e * 10^6
GrowthNum(y, k) ==
  IF OffsetSign(y, k) >= 0
  THEN BAdd(BMul(BShl(<<1>>, 0 - y.e), BPow10(6)), BMulSmall(OffsetMag(y, k), 2302585))
  ELSE BSub(BMul(BShl(<<1>>, 0 - y.e), BPow10(6)), BMulSmall(OffsetMag(y, k), 2302585))

\* the double nearest to 10^y = 10^k * e^((y - k) ln 10)
Pow10Near(y, k) ==
  IF IsZero(y) THEN Num(1, 0)
  ELSE Ratio(1, BMul(BPow10(Max(k, 0)), GrowthNum(y, k)),
             BMul(BPow10(Max(0 - k, 0)), BMul(BShl(<<1>>, 0 - y.e), BPow10(6))), 0)

\* y is within 2^-40 of an integer
NearPower(y) ==
  IsZero(y)
  \/ BCmp(BShl(OffsetMag(y, NearInt(y)), 40), BShl(<<1>>, 0 - y.e)) < 0

\* the double nearest to 10^y, for a finite y of magnitude below 2^15
Pow10Nearest(y) ==
  IF NearPower(y) THEN Pow10Near(y, NearInt(y)) ELSE Pow10Series(y)

\* Math.pow(10, y): exact where 10^y is a double, otherwise within one unit
\* in the last place of the nearest double, as this engine rounds
Math_pow10(y) ==
  IF isNaN(y) THEN NaN
  ELSE IF y.k = "inf" THEN (IF y.s = 1 THEN PosInf ELSE Zero)
  ELSE IF IsZero(y) \/ (y = IntNum(NearInt(y)) /\ y.s = 1) THEN Pow10Near(y, NearInt(y))
  ELSE Ulps(Pow10Nearest(y), mathPowUlp)

(***************************************************************************)
(* physicsCalculations.js: positions on the logarithmic scale              *)
(***************************************************************************)
getLogPosition(value, min, max) ==
  IF FLe(value, Zero) \/ FLe(min, Zero) \/ FLe(max, Zero) THEN Zero
  ELSE FDiv(FSub(Math_log10(value), Math_log10(min)),
            FSub(Math_log10(max), Math_log10(min)))

\* A faulty inverse: interpolates from the upper end of the scale
getValueFromLogPosition_FromMax(position, min, max) ==
  IF FLe(min, Zero) \/ FLe(max, Zero) THEN Zero
  ELSE Math_pow10(FAdd(Math_log10(max),
                       FMul(position, FSub(Math_log10(max), Math_log10(min)))))

getValueFromLogPosition(position, min, max) ==
  IF FLe(min, Zero) \/ FLe(max, Zero) THEN Zero
  ELSE Math_pow10(FAdd(Math_log10(min),
                       FMul(position, FSub(Math_log10(max), Math_log10(min)))))

\* the arguments the scale is called with: lengths near powers of ten, NaN
\* and zero
LogInputs == LogDomain \cup {Zero}

\* positions a caller passes of its own: the ends of the scale
EndPositions == {Zero, Num(1, 0)}

CallGetLogPosition ==
  /\ calls = <<>>
  /\ \E value, min, max \in LogInputs :
       Invoke("getLogPosition", <<value, min, max>>, getLogPosition(value, min, max))

\* the position is what getLogPosition returned for the same scale, or an
\* end of the scale
CallGetValueFromLogPosition ==
  /\ Len(calls) < MaxCalls
  /\ \/ /\ calls # <<>>
        /\ Last.fn = "getLogPosition"
        /\ Invoke("getValueFromLogPosition", <<Last.ret, Last.arg[2], Last.arg[3]>>,
                  getValueFromLogPosition(Last.ret, Last.arg[2], Last.arg[3]))
     \/ /\ calls = <<>>
        /\ \E position \in EndPositions : \E min, max \in LogInputs :
             Invoke("getValueFromLogPosition", <<position, min, max>>,
                    getValueFromLogPosition(position, min, max))

(***************************************************************************)
(* constants/ui.js                                                         *)
(***************************************************************************)
CONVERSION_FACTORS ==
  [METERS_TO_NANOMETERS |-> Num(1, 9), NANOMETERS_TO_METERS |-> Num(1, -9),
   HERTZ_TO_TERAHERTZ |-> Num(1, -12), TERAHERTZ_TO_HERTZ |-> Num(1, 12)]

INPUT_RANGES ==
  [WAVELENGTH_NM |-> [MIN |-> Num(1, 0), MAX |-> Num(1000000, 0)],
   FREQUENCY_THz |-> [MIN |-> Num(1, -3), MAX |-> Num(1000000, 0)],
   ENERGY_EV |-> [MIN |-> Num(1, -4), MAX |-> Num(1000000, 0)]]

(***************************************************************************)
(* App.jsx and SimpleConversionPanel.jsx.  AppContent holds                *)
(* selectedWavelength and derives frequency, energy and region from it in  *)
(* every render; the panel keeps three numbers of its own and an effect    *)
(* that runs after a render in which selectedWavelength has changed.       *)
(***************************************************************************)
\* what AppContent renders for a selected wavelength (the useMemo values)
AppContent(w) ==
  [selectedWavelength |-> w,
   frequency |-> wavelengthToFrequency(w),
   energy |-> wavelengthToEnergyEV(w),
   region |-> getRegionByWavelength(w)]

\* a number in a condition: false for 0 and NaN
TruthyNumber(n) == ~isNaN(n) /\ ~IsZero(n)

\* setSelectedWavelength(w) and the render that follows; the panel's effect
\* is scheduled when the dependency differs from the last render's
\* (Object.is)
setSelectedWavelength(w) ==
  /\ appContent' = AppContent(w)
  /\ panelEffectPending' = (w # appContent.selectedWavelength)

\* the effect of SimpleConversionPanel on [selectedWavelength]
PanelEffect ==
  /\ panelEffectPending
  /\ panelEffectPending' = FALSE
  /\ conversionPanel' =
       IF TruthyNumber(appContent.selectedWavelength)
       THEN [wavelengthNm |-> FMul(appContent.selectedWavelength,
                                   CONVERSION_FACTORS.METERS_TO_NANOMETERS),
             frequency |-> wavelengthToFrequency(appContent.selectedWavelength),
             energy |-> wavelengthToEnergyEV(appContent.selectedWavelength)]
       ELSE conversionPanel
  /\ UNCHANGED <<appContent, lastEvent, calls, mathVars, themeVars, otherVars>>

\* the number a field's text stands for is accepted by its handler
Accepted(n, limit) == ~isNaN(n) /\ FLt(Zero, n) /\ FLe(n, limit)

\* onWavelengthChange(w) when w is finite and positive
PropagateIfValid(w) ==
  IF isFinite(w) /\ FLt(Zero, w) THEN setSelectedWavelength(w)
  ELSE UNCHANGED <<appContent, panelEffectPending>>

\* what a user types into the number fields: values inside the advertised
\* range, outside it, beyond the handler's limit, the smallest numbers, and
\* text that is no number
WavelengthTexts == {<<"5", "5", "0">>, <<"7", "0", "0">>, <<"5", "0", "0", "0", "0", "0", "0">>, <<"0", ".", "5">>, <<"2", "e", "1", "2">>, <<"-", "5">>, <<"1", "e", "-", "3", "2", "0">>, <<>>}
FrequencyTexts == {<<"1">>, <<"5", "4", "5", ".", "0", "7", "7">>, <<"1", "e", "7">>, <<"0", ".", "0", "0", "0", "1">>, <<"2", "e", "1", "5">>, <<"0">>, <<"1", "e", "-", "3", "2", "0">>, <<>>}
EnergyTexts == {<<"2", ".", "2", "5">>, <<"1", "4", ".", "2", "5">>, <<"1", "e", "7">>, <<"0", ".", "0", "0", "0", "0", "1">>, <<"2", "e", "1", "2">>, <<>>}

\* the values of the range input: whole numbers from min 1 to max 1000000
SliderTexts == {<<"1">>, <<"3", "8", "0">>, <<"1", "0", "0", "0", "0", "0", "0">>}

\* parseFloat(e.target.value): parseFloat is a pure function of the text,
\* worked out once for each text entered in a run
FieldValues ==
  [t \in WavelengthTexts \cup FrequencyTexts \cup EnergyTexts \cup SliderTexts |->
     parseFloat(t)]

\* handleWavelengthChange of the panel: e.target.value is text
WavelengthEntered(v) ==
  IF Accepted(v, Num(1, 12))
  THEN /\ conversionPanel' = [conversionPanel EXCEPT !.wavelengthNm = v]
       /\ setSelectedWavelength(FMul(v, CONVERSION_FACTORS.NANOMETERS_TO_METERS))
  ELSE UNCHANGED <<conversionPanel, appContent, panelEffectPending>>
\* what handleWavelengthChange passes to onWavelengthChange, Undefined when
\* it does not call it
WavelengthPassed(v) ==
  IF Accepted(v, Num(1, 12)) THEN FMul(v, CONVERSION_FACTORS.NANOMETERS_TO_METERS)
  ELSE Undefined
handleWavelengthChange(text) ==
  /\ lastEvent' = [handler |-> "handleWavelengthChange", text |-> text,
                   passed |-> WavelengthPassed(FieldValues[text])]
  /\ WavelengthEntered(FieldValues[text])

FrequencyEntered(v) ==
  IF Accepted(v, Num(1, 15))
  THEN /\ conversionPanel' =
            [conversionPanel EXCEPT
               !.frequency = FMul(v, CONVERSION_FACTORS.TERAHERTZ_TO_HERTZ)]
       /\ PropagateIfValid(frequencyToWavelength(
            FMul(v, CONVERSION_FACTORS.TERAHERTZ_TO_HERTZ)))
  ELSE UNCHANGED <<conversionPanel, appContent, panelEffectPending>>
\* what a handler passes on when it has converted the field to w
PassedIfValid(w) == IF isFinite(w) /\ FLt(Zero, w) THEN w ELSE Undefined
FrequencyPassed(v) ==
  IF Accepted(v, Num(1, 15))
  THEN PassedIfValid(frequencyToWavelength(FMul(v, CONVERSION_FACTORS.TERAHERTZ_TO_HERTZ)))
  ELSE Undefined
handleFrequencyChange(text) ==
  /\ lastEvent' = [handler |-> "handleFrequencyChange", text |-> text,
                   passed |-> FrequencyPassed(FieldValues[text])]
  /\ FrequencyEntered(FieldValues[text])

EnergyEntered(v) ==
  IF Accepted(v, Num(1, 12))
  THEN /\ conversionPanel' = [conversionPanel EXCEPT !.energy = v]
       /\ PropagateIfValid(energyEVToWavelength(v))
  ELSE UNCHANGED <<conversionPanel, appContent, panelEffectPending>>
EnergyPassed(v) ==
  IF Accepted(v, Num(1, 12)) THEN PassedIfValid(energyEVToWavelength(v)) ELSE Undefined
handleEnergyChange(text) ==
  /\ lastEvent' = [handler |-> "handleEnergyChange", text |-> text,
                   passed |-> EnergyPassed(FieldValues[text])]
  /\ EnergyEntered(FieldValues[text])

\* onChange of the range input of AppContent: e.target.value * 1e-9
handleSliderChange(text) ==
  /\ lastEvent' = [handler |-> "slider", text |-> text]
  /\ setSelectedWavelength(FMul(FieldValues[text], Num(1, -9)))
  /\ UNCHANGED conversionPanel

\* one more event of a session of at most MaxEvents
CountEvent ==
  /\ pageEvents < MaxEvents
  /\ pageEvents' = pageEvents + 1

\* React runs pending effects before it handles the next event
TypeWavelength ==
  /\ CountEvent
  /\ ~panelEffectPending
  /\ \E t \in WavelengthTexts : handleWavelengthChange(t)
  /\ UNCHANGED <<barWavelengths, calls, mathVars, themeVars, preferencesVars,
                 componentVars>>

TypeFrequency ==
  /\ CountEvent
  /\ ~panelEffectPending
  /\ \E t \in FrequencyTexts : handleFrequencyChange(t)
  /\ UNCHANGED <<barWavelengths, calls, mathVars, themeVars, preferencesVars,
                 componentVars>>

TypeEnergy ==
  /\ CountEvent
  /\ ~panelEffectPending
  /\ \E t \in EnergyTexts : handleEnergyChange(t)
  /\ UNCHANGED <<barWavelengths, calls, mathVars, themeVars, preferencesVars,
                 componentVars>>

MoveSlider ==
  /\ CountEvent
  /\ ~panelEffectPending
  /\ \E t \in SliderTexts : handleSliderChange(t)
  /\ UNCHANGED <<barWavelengths, calls, mathVars, themeVars, preferencesVars,
                 componentVars>>

\* the first render: useState(550e-9) in AppContent, useState(550),
\* useState(0), useState(0) in the panel, whose effect has yet to run
InitUIVars ==
  /\ appContent = AppContent(Num(550, -9))
  /\ conversionPanel = [wavelengthNm |-> Num(550, 0), frequency |-> Zero, energy |-> Zero]
  /\ panelEffectPending = TRUE
  /\ lastEvent = [handler |-> "none", text |-> <<>>]

(***************************************************************************)
(* ThemeContext.jsx: ThemeProvider.  The theme setting and the resolved    *)
(* theme are React state; localStorage and the operating system's colour   *)
(* scheme are the environment.  The two effects on [theme] run together    *)
(* after a render in which theme has changed.                              *)
(***************************************************************************)
themes == <<"light", "dark", "system">>

\* Array.prototype.indexOf, counting from 0; -1 when absent
indexOf(list, item) ==
  IF \E i \in DOMAIN list : list[i] = item
  THEN (CHOOSE i \in DOMAIN list : list[i] = item /\ \A j \in 1..(i - 1) : list[j] # item) - 1
  ELSE -1

\* localStorage.getItem returns null for a missing key
Missing == "(null)"

\* A faulty initializer: trusts whatever is stored
InitialTheme_Unchecked(savedTheme) ==
  IF savedTheme \notin {Missing, ""} THEN savedTheme ELSE "system"

\* the initializer of useState: the saved theme when it is one of themes
InitialTheme(savedTheme) ==
  IF savedTheme \notin {Missing, ""} /\ indexOf(themes, savedTheme) >= 0
  THEN savedTheme
  ELSE "system"

\* A faulty cycle: steps backwards
toggleTheme_Backwards(current) ==
  themes[((indexOf(themes, current) + 2) % Len(themes)) + 1]

\* themes[(themes.indexOf(theme) + 1) % themes.length]
toggleTheme(current) ==
  themes[((indexOf(themes, current) + 1) % Len(themes)) + 1]

\* A faulty query: never reports the dark scheme
getSystemTheme_AlwaysLight == "light"

\* window.matchMedia("(prefers-color-scheme: dark)").matches ? "dark" : "light"
getSystemTheme == IF prefersDark THEN "dark" ELSE "light"

\* the number of theme calls and mounts followed in one history
MaxThemeCalls == 4

\* what localStorage may hold under 'theme' when the page loads
StoredValues == {Missing, "", "light", "dark", "system", "blue"}

\* arguments of setTheme
SetThemeArgs == {"light", "dark", "system", "blue", Missing}

\* the entry of the history for a call that leaves the setting at after
ThemeCall(fn, arg, after) ==
  [fn |-> fn, arg |-> arg, before |-> theme, after |-> after]

\* setTheme(next) of React and the render that follows: the effects are
\* scheduled when the state has changed
SetThemeState(next) ==
  /\ theme' = next
  /\ themeEffectPending' = (themeEffectPending \/ next # theme)

\* the two effects on [theme]: the cleanup of the previous run removes the
\* media listener; then resolve, register the listener under 'system', and
\* save
ThemeEffects ==
  /\ themeEffectPending
  /\ themeEffectPending' = FALSE
  /\ resolvedTheme' = IF theme = "system" THEN getSystemTheme ELSE theme
  /\ mediaListener' = (theme = "system")
  /\ storedTheme' = theme
  /\ UNCHANGED <<theme, prefersDark, themeCalls, calls, mathVars, uiVars, otherVars>>

\* setTheme of the context (setThemeMode)
CallSetTheme ==
  /\ ~themeEffectPending
  /\ Len(themeCalls) < MaxThemeCalls
  /\ \E newTheme \in SetThemeArgs :
       /\ IF indexOf(themes, newTheme) >= 0
          THEN SetThemeState(newTheme)
          ELSE UNCHANGED <<theme, themeEffectPending>>
       /\ themeCalls' = Append(themeCalls,
            ThemeCall("setTheme", newTheme,
                      IF indexOf(themes, newTheme) >= 0 THEN newTheme ELSE theme))
  /\ UNCHANGED <<resolvedTheme, mediaListener, storedTheme, prefersDark,
               calls, mathVars, uiVars, otherVars>>

\* toggleTheme of the render on screen
CallToggleTheme ==
  /\ ~themeEffectPending
  /\ Len(themeCalls) < MaxThemeCalls
  /\ SetThemeState(toggleTheme(theme))
  /\ themeCalls' = Append(themeCalls, ThemeCall("toggleTheme", Missing, toggleTheme(theme)))
  /\ UNCHANGED <<resolvedTheme, mediaListener, storedTheme, prefersDark,
               calls, mathVars, uiVars, otherVars>>

\* the operating system switches between light and dark; a registered
\* listener runs updateResolvedTheme of the effect that registered it, whose
\* theme is 'system'
SystemSchemeChange ==
  /\ prefersDark' = ~prefersDark
  /\ resolvedTheme' = IF mediaListener
                      THEN (IF prefersDark' THEN "dark" ELSE "light")
                      ELSE resolvedTheme
  /\ UNCHANGED <<theme, themeEffectPending, mediaListener, storedTheme, themeCalls,
               calls, mathVars, uiVars, otherVars>>

\* the page is loaded again: ThemeProvider mounts and reads localStorage,
\* which holds what the last effect saved unless it was edited meanwhile
Reload ==
  /\ ~themeEffectPending
  /\ Len(themeCalls) < MaxThemeCalls
  /\ \E saved \in {storedTheme, "blue", Missing} :
       /\ storedTheme' = saved
       /\ theme' = InitialTheme(saved)
       /\ themeCalls' = Append(themeCalls,
            ThemeCall("ThemeProvider", saved, InitialTheme(saved)))
  /\ resolvedTheme' = "light"
  /\ themeEffectPending' = TRUE
  /\ mediaListener' = FALSE
  /\ UNCHANGED <<prefersDark, calls, mathVars, uiVars, otherVars>>

\* the first render of ThemeProvider for a stored value and a system scheme
MountedWith(saved, dark) ==
  /\ storedTheme = saved
  /\ prefersDark = dark
  /\ theme = InitialTheme(saved)
  /\ resolvedTheme = "light"
  /\ themeEffectPending = TRUE
  /\ mediaListener = FALSE
  /\ themeCalls = <<[fn |-> "ThemeProvider", arg |-> saved, before |-> Missing,
                     after |-> InitialTheme(saved)]>>


(***************************************************************************)
(* PreferencesContext.jsx: PreferencesProvider.  The preferences object is *)
(* React state; localStorage's 'user-preferences' is the environment.  An  *)
(* object is a function from its keys; `fresh` tells an object made by a   *)
(* spread from DEFAULT_PREFERENCES itself, which React's Object.is sees.   *)
(***************************************************************************)
DEFAULT_PREFERENCES ==
  [wavelengthUnit |-> "nm",
   frequencyUnit |-> "Hz",
   energyUnit |-> "eV",
   showScientificNotation |-> TRUE,
   decimalPlaces |-> 2]

\* { ...first, ...second }
Spread(first, second) ==
  [k \in (DOMAIN first) \cup (DOMAIN second) |->
     IF k \in DOMAIN second THEN second[k] ELSE first[k]]

\* an object without keys
EmptyObject == [k \in {} |-> ""]

\* localStorage without the key, and with an object under it
NoSaved == [present |-> FALSE, value |-> EmptyObject]

Saved(object) == [present |-> TRUE, value |-> object]

\* storage.getJSON(key, null): the stored object, or the default null
\* (falsy), told apart by `present`
getJSON(stored) == stored

\* the initializer of useState
InitialPreferences(stored) ==
  IF getJSON(stored).present
  THEN [fresh |-> TRUE, value |-> Spread(DEFAULT_PREFERENCES, getJSON(stored).value)]
  ELSE [fresh |-> FALSE, value |-> DEFAULT_PREFERENCES]

\* the number of mounts and calls followed in one history
MaxPreferencesCalls == 3

\* arguments of updatePreferences
PreferenceUpdates ==
  {[frequencyUnit |-> "THz"],
   [decimalPlaces |-> 4, showScientificNotation |-> FALSE],
   EmptyObject}

\* what localStorage may hold under 'user-preferences' when the page loads
StoredPreferences ==
  {NoSaved, Saved([wavelengthUnit |-> "mm"]), Saved(DEFAULT_PREFERENCES),
   Saved(EmptyObject)}

PreferencesCall(fn, saved, arg) == [fn |-> fn, saved |-> saved, arg |-> arg]

\* useEffect on [preferences]: storage.setJSON('user-preferences', preferences)
PreferencesEffect ==
  /\ preferencesEffectPending
  /\ preferencesEffectPending' = FALSE
  /\ storedPreferences' = Saved(preferences.value)
  /\ UNCHANGED <<preferences, preferencesCalls, calls, mathVars, uiVars, themeVars, spectrumVars,
                 componentVars>>

\* setPreferences(prev => ({ ...prev, ...updates })): always a new object
CallUpdatePreferences ==
  /\ ~preferencesEffectPending
  /\ Len(preferencesCalls) < MaxPreferencesCalls
  /\ \E updates \in PreferenceUpdates :
       /\ preferences' = [fresh |-> TRUE, value |-> Spread(preferences.value, updates)]
       /\ preferencesCalls' = Append(preferencesCalls,
                                     PreferencesCall("updatePreferences", FALSE, updates))
  /\ preferencesEffectPending' = TRUE
  /\ UNCHANGED <<storedPreferences, calls, mathVars, uiVars, themeVars, spectrumVars,
                 componentVars>>

\* setPreferences(DEFAULT_PREFERENCES): no render and no effect when the
\* state is that object already
CallResetPreferences ==
  /\ ~preferencesEffectPending
  /\ Len(preferencesCalls) < MaxPreferencesCalls
  /\ preferences' = [fresh |-> FALSE, value |-> DEFAULT_PREFERENCES]
  /\ preferencesEffectPending' = preferences.fresh
  /\ preferencesCalls' = Append(preferencesCalls,
                                PreferencesCall("resetPreferences", FALSE, EmptyObject))
  /\ UNCHANGED <<storedPreferences, calls, mathVars, uiVars, themeVars, spectrumVars,
                 componentVars>>

\* the page is loaded again: PreferencesProvider mounts and reads what the
\* last effect saved, or finds the storage cleared
ReloadPreferences ==
  /\ ~preferencesEffectPending
  /\ Len(preferencesCalls) < MaxPreferencesCalls
  /\ \E stored \in {storedPreferences, NoSaved} :
       /\ storedPreferences' = stored
       /\ preferences' = InitialPreferences(stored)
       /\ preferencesCalls' = Append(preferencesCalls,
            PreferencesCall("PreferencesProvider", stored.present, stored.value))
  /\ preferencesEffectPending' = TRUE
  /\ UNCHANGED <<calls, mathVars, uiVars, themeVars, spectrumVars,
                 componentVars>>

\* the first render of PreferencesProvider over a stored value
PreferencesMountedWith(stored) ==
  /\ storedPreferences = stored
  /\ preferences = InitialPreferences(stored)
  /\ preferencesEffectPending = TRUE
  /\ preferencesCalls = <<PreferencesCall("PreferencesProvider", stored.present, stored.value)>>

(***************************************************************************)
(* SimpleSpectrum.jsx: the clickable bar, its keyboard and its indicator.  *)
(***************************************************************************)
WAVELENGTH_BOUNDS == [MIN |-> Num(1, -15), MAX |-> Num(1, 4), DEFAULT |-> Num(550, -9)]

KEYBOARD_NAV ==
  [NORMAL_STEP |-> Num(1, 0), SHIFT_STEP |-> Num(10, 0), STEP_MULTIPLIER |-> Num(5, -2)]

\* the regions of the bar, left to right: flex weight and wavelength range
BarRegion(name, flex, minWl, maxWl) ==
  [name |-> name, flex |-> flex, minWl |-> minWl, maxWl |-> maxWl]

\* const regions of handleSpectrumClick and of calculateIndicatorPosition
BarRegions ==
  << BarRegion("Gamma", Num(25, 0), Num(1, -15), Num(10, -12)),
     BarRegion("X-ray", Num(15, 0), Num(10, -12), Num(10, -9)),
     BarRegion("UV", Num(10, 0), Num(10, -9), Num(380, -9)),
     BarRegion("Visible", Num(5, 0), Num(380, -9), Num(700, -9)),
     BarRegion("Infrared", Num(15, 0), Num(700, -9), Num(1, -3)),
     BarRegion("Microwave", Num(10, 0), Num(1, -3), Num(1, -1)),
     BarRegion("Radio", Num(20, 0), Num(1, -1), Num(1, 4)) >>

RECURSIVE SumFlex(_)
\* regions.reduce((sum, region) => sum + region.flex, 0) over the first i
SumFlex(i) == IF i = 0 THEN Zero ELSE FAdd(SumFlex(i - 1), BarRegions[i].flex)

totalFlex == SumFlex(Len(BarRegions))

\* Math.max and Math.min of two numbers: NaN when either is NaN
Math_max(a, b) == IF isNaN(a) \/ isNaN(b) THEN NaN ELSE IF FGe(a, b) THEN a ELSE b
Math_min(a, b) == IF isNaN(a) \/ isNaN(b) THEN NaN ELSE IF FLe(a, b) THEN a ELSE b

\* 1 + step * KEYBOARD_NAV.STEP_MULTIPLIER
StepFactor(shiftKey) ==
  FAdd(Num(1, 0),
       FMul(IF shiftKey THEN KEYBOARD_NAV.SHIFT_STEP ELSE KEYBOARD_NAV.NORMAL_STEP,
            KEYBOARD_NAV.STEP_MULTIPLIER))

\* the switch of handleKeyDown: newWavelength before it is clamped
KeyTarget(key, shiftKey, selectedWavelength) ==
  IF key \in {"ArrowLeft", "ArrowDown"} THEN FDiv(selectedWavelength, StepFactor(shiftKey))
  ELSE IF key \in {"ArrowRight", "ArrowUp"} THEN FMul(selectedWavelength, StepFactor(shiftKey))
  ELSE IF key = "Home" THEN Num(1, -12)
  ELSE Num(1, 2)

\* the keys handleKeyDown acts on; for any other key it returns at once
NavigationKeys == {"ArrowLeft", "ArrowDown", "ArrowRight", "ArrowUp", "Home", "End"}

\* handleKeyDown: what it passes to onWavelengthChange
handleKeyDown(key, shiftKey, selectedWavelength) ==
  Math_max(WAVELENGTH_BOUNDS.MIN,
           Math_min(WAVELENGTH_BOUNDS.MAX, KeyTarget(key, shiftKey, selectedWavelength)))

\* region.flex / totalFlex
RegionWidth(i) == FDiv(BarRegions[i].flex, totalFlex)

\* Math.log10 of each of the values
LogsOf(values) == [v \in values |-> Math_log10(v)]

\* Math.pow(10, minLog + positionInRegion * (maxLog - minLog))
WavelengthAt(minLog, maxLog, positionInRegion) ==
  Math_pow10(FAdd(minLog, FMul(positionInRegion, FSub(maxLog, minLog))))

\* const minLog = Math.log10(region.minWl), maxLog = Math.log10(region.maxWl)
\* and the wavelength at a position between them
WavelengthBetween(logs, minWl, maxWl, positionInRegion) ==
  WavelengthAt(logs[minWl], logs[maxWl], positionInRegion)
WavelengthInRegion(i, positionInRegion) ==
  WavelengthBetween(LogsOf({BarRegions[i].minWl, BarRegions[i].maxWl}),
                    BarRegions[i].minWl, BarRegions[i].maxWl, positionInRegion)

RECURSIVE ClickFrom(_, _, _)
\* the loop of handleSpectrumClick from region i on: the wavelength passed
\* to onWavelengthChange, or Undefined when the loop ends without a call
ClickFrom(clickRatio, i, cumulativeRatio) ==
  IF i > Len(BarRegions) THEN Undefined
  ELSE IF FGe(clickRatio, cumulativeRatio)
          /\ FLe(clickRatio, FAdd(cumulativeRatio, RegionWidth(i)))
       THEN WavelengthInRegion(i, FDiv(FSub(clickRatio, cumulativeRatio), RegionWidth(i)))
  ELSE ClickFrom(clickRatio, i + 1, FAdd(cumulativeRatio, RegionWidth(i)))

\* handleSpectrumClick for a click x pixels from the left of a bar of the
\* given width
handleSpectrumClick(x, width) == ClickFrom(FDiv(x, width), 1, Zero)

\* (region.flex / totalFlex) * 100
RegionWidthPercent(i) == FMul(FDiv(BarRegions[i].flex, totalFlex), Num(100, 0))

\* (selectedLog - minLog) / (maxLog - minLog)
RatioInRegion(logs, selectedWavelength, minWl, maxWl) ==
  FDiv(FSub(logs[selectedWavelength], logs[minWl]), FSub(logs[maxWl], logs[minWl]))

\* a bar whose regions are divided evenly in wavelength, not in its logarithm
PositionInRegion_Linear(i, selectedWavelength, cumulativePosition) ==
  FAdd(cumulativePosition,
       FMul(FDiv(FSub(selectedWavelength, BarRegions[i].minWl),
                 FSub(BarRegions[i].maxWl, BarRegions[i].minWl)),
            RegionWidthPercent(i)))

\* cumulativePosition + ratioInRegion * regionWidthPercent, kept in 0..100
PositionInRegion(i, selectedWavelength, cumulativePosition) ==
  Math_max(Zero,
    Math_min(Num(100, 0),
      FAdd(cumulativePosition,
           FMul(RatioInRegion(LogsOf({selectedWavelength, BarRegions[i].minWl,
                                      BarRegions[i].maxWl}),
                              selectedWavelength, BarRegions[i].minWl,
                              BarRegions[i].maxWl),
                RegionWidthPercent(i)))))

RECURSIVE PositionFrom(_, _, _)
\* the loop of calculateIndicatorPosition from region i on, and what follows
\* it
PositionFrom(selectedWavelength, i, cumulativePosition) ==
  IF i > Len(BarRegions)
  THEN IF FLt(selectedWavelength, Num(1, -15)) THEN Zero
       ELSE IF FLt(Num(1, 4), selectedWavelength) THEN Num(100, 0)
       ELSE Num(50, 0)
  ELSE IF FGe(selectedWavelength, BarRegions[i].minWl)
          /\ FLe(selectedWavelength, BarRegions[i].maxWl)
       THEN PositionInRegion(i, selectedWavelength, cumulativePosition)
  ELSE PositionFrom(selectedWavelength, i + 1,
                    FAdd(cumulativePosition, RegionWidthPercent(i)))

calculateIndicatorPosition(selectedWavelength) == PositionFrom(selectedWavelength, 1, Zero)

(***************************************************************************)
(* SimpleSpectrum and SimpleEducationalPanel in the page: their handlers   *)
(* call onWavelengthChange, which is AppContent's setSelectedWavelength.   *)
(***************************************************************************)
\* the width of the bar in pixels and the offsets of the clicks made on it:
\* both ends, the boundaries between regions, and places inside regions
BarWidth == 1000
ClickOffsets == {0, 100, 250, 400, 525, 550, 700, 800, 999, 1000}

\* the keys pressed on the bar: the six it handles and one it ignores
Keys == NavigationKeys \cup {"Enter"}

\* the wavelength a click selects and where the indicator is then drawn
BarPoint(w) ==
  [wavelength |-> w,
   indicator |-> IF w = Undefined THEN Undefined ELSE calculateIndicatorPosition(w)]

\* the page as mounted: no event yet, nothing tabulated
SpectrumMounted ==
  /\ pageEvents = 0
  /\ barWavelengths = <<>>

\* handleSpectrumClick and calculateIndicatorPosition are pure functions
\* under a fixed engine: they are worked out once, before the first event,
\* for the offsets clicked
TabulateBar ==
  /\ pageEvents = 0
  /\ barWavelengths = <<>>
  /\ barWavelengths' =
       [x \in ClickOffsets |->
          BarPoint(handleSpectrumClick(IntNum(x), IntNum(BarWidth)))]
  /\ UNCHANGED <<pageEvents, calls, mathVars, uiVars, themeVars, preferencesVars,
                 componentVars>>

\* onClick of the bar
ClickSpectrum ==
  /\ CountEvent
  /\ ~panelEffectPending
  /\ barWavelengths # <<>>
  /\ \E x \in ClickOffsets :
       /\ lastEvent' = [handler |-> "handleSpectrumClick", text |-> <<>>,
                        x |-> x, passed |-> barWavelengths[x].wavelength]
       /\ IF barWavelengths[x].wavelength = Undefined
          THEN UNCHANGED <<appContent, panelEffectPending>>
          ELSE setSelectedWavelength(barWavelengths[x].wavelength)
  /\ UNCHANGED <<barWavelengths, conversionPanel, calls, mathVars, themeVars,
                 preferencesVars,
                 componentVars>>

\* onKeyDown of the bar
PressKey ==
  /\ CountEvent
  /\ ~panelEffectPending
  /\ barWavelengths # <<>>
  /\ \E key \in Keys, shiftKey \in BOOLEAN :
       IF key \in NavigationKeys
       THEN \E w \in {handleKeyDown(key, shiftKey, appContent.selectedWavelength)} :
              /\ lastEvent' = [handler |-> "handleKeyDown", text |-> <<>>,
                               key |-> key, passed |-> w]
              /\ setSelectedWavelength(w)
       ELSE /\ lastEvent' = [handler |-> "handleKeyDown", text |-> <<>>,
                             key |-> key, passed |-> Undefined]
            /\ UNCHANGED <<appContent, panelEffectPending>>
  /\ UNCHANGED <<barWavelengths, conversionPanel, calls, mathVars, themeVars,
                 preferencesVars,
                 componentVars>>

\* a button that selects the upper end of its region
handleRegionClick_UpperEnd(region) == region.wavelengthMax

\* handleRegionClick of SimpleEducationalPanel: what it passes on
handleRegionClick(region) ==
  Math_sqrt(FMul(region.wavelengthMin, region.wavelengthMax))

\* the catalog is fixed: what each quick-select button passes on
RegionMiddles ==
  [i \in DOMAIN SPECTRUM_REGIONS |-> handleRegionClick(SPECTRUM_REGIONS[i])]

\* onClick of a quick-select button: one for each region of the catalog
ClickRegion ==
  /\ CountEvent
  /\ ~panelEffectPending
  /\ \E i \in DOMAIN SPECTRUM_REGIONS :
       /\ lastEvent' = [handler |-> "handleRegionClick", text |-> <<>>,
                        region |-> i, passed |-> RegionMiddles[i]]
       /\ setSelectedWavelength(RegionMiddles[i])
  /\ UNCHANGED <<barWavelengths, conversionPanel, calls, mathVars, themeVars,
                 preferencesVars,
                 componentVars>>

(***************************************************************************)
(* ErrorBoundary.jsx: the class component around the application.          *)
(***************************************************************************)
\* this.state as the constructor sets it
BoundaryConstructed == [hasError |-> FALSE, error |-> Null, errorInfo |-> Null]

\* static getDerivedStateFromError(error), merged into the state
getDerivedStateFromError(state, error) ==
  [state EXCEPT !.hasError = TRUE, !.error = error]

\* componentDidCatch(error, errorInfo): this.setState({ error, errorInfo })
componentDidCatch(state, error, errorInfo) ==
  [state EXCEPT !.error = error, !.errorInfo = errorInfo]

\* a reset that forgets the error but not the flag
handleReset_KeepsFlag(state) == [state EXCEPT !.error = Null, !.errorInfo = Null]

\* handleReset: this.setState({ hasError: false, error: null, errorInfo: null })
handleReset(state) ==
  [state EXCEPT !.hasError = FALSE, !.error = Null, !.errorInfo = Null]

\* render(): the fallback when this.state.hasError, else this.props.children
render(state) == IF state.hasError THEN "fallback" ELSE "children"

\* the errors a descendant throws and where React says they came from
Errors == {"Test error", "TypeError", "RangeError"}
ComponentStacks == {"in ThrowError", "in SimpleSpectrum"}

\* the renders, throws and resets followed after the boundary is mounted
MaxBoundaryEvents == 4

BoundaryMounted == boundary = BoundaryConstructed /\ boundaryEvents = <<>>

BoundaryEvent(kind, error, stack) ==
  /\ Len(boundaryEvents) < MaxBoundaryEvents
  /\ boundaryEvents' = Append(boundaryEvents, [kind |-> kind, error |-> error, stack |-> stack])
  /\ UNCHANGED <<debounceVars, calls, mathVars, uiVars, themeVars, preferencesVars,
                 spectrumVars>>

\* a descendant throws while the children are rendered: React calls
\* getDerivedStateFromError, renders again, and calls componentDidCatch
DescendantThrows ==
  /\ render(boundary) = "children"
  /\ \E error \in Errors, stack \in ComponentStacks :
       /\ boundary' = componentDidCatch(getDerivedStateFromError(boundary, error),
                                        error, [componentStack |-> stack])
       /\ BoundaryEvent("throw", error, stack)

\* the children are rendered again and nothing throws
DescendantRenders ==
  /\ render(boundary) = "children"
  /\ boundary' = boundary
  /\ BoundaryEvent("render", Null, Null)

\* a click on Try Again, which only the fallback shows
TryAgain ==
  /\ render(boundary) = "fallback"
  /\ boundary' = handleReset(boundary)
  /\ BoundaryEvent("reset", Null, Null)

(***************************************************************************)
(* useDebounce.js: useDebounce(callback, delay) in a mounted component.    *)
(* React runs the effects of a render after it, as steps of their own, and *)
(* the browser runs a timer once it is due.                                *)
(***************************************************************************)
\* the functions and delays a component passes to the hook, and the
\* arguments it calls the debounced function with
Callbacks == {"first", "second"}
Delays == {1, 2}
CallArguments == {"a", "b"}

\* the calls of the debounced function and the clock ticks followed
MaxDebouncedCalls == 2
MaxTime == 4

\* the first render: useRef(null), useRef(callback); timer ids are positive,
\* 0 stands for the null in timeoutRef
DebounceMountedWith(callback, delay) ==
  /\ debounce = [mounted |-> TRUE, callback |-> callback, delay |-> delay,
                 callbackRef |-> callback, timeoutRef |-> 0,
                 refEffectPending |-> FALSE, cleanupPending |-> FALSE]
  /\ timers = {}
  /\ clock = 0
  /\ debouncedCalls = <<>>
  /\ invocations = <<>>

UnchangedByDebounce ==
  UNCHANGED <<boundaryVars, calls, mathVars, uiVars, themeVars, preferencesVars,
              spectrumVars>>

\* clearTimeout(id)
clearTimeout(pending, id) == {t \in pending : t.id # id}

\* the component renders again with another callback or delay; the effect
\* on [callback] is scheduled when the callback changed (React runs the
\* effects of a render before it renders again)
Rerender ==
  /\ debounce.mounted
  /\ ~debounce.refEffectPending
  /\ \E callback \in Callbacks, delay \in Delays :
       /\ <<callback, delay>> # <<debounce.callback, debounce.delay>>
       /\ debounce' = [debounce EXCEPT !.callback = callback, !.delay = delay,
                                       !.refEffectPending = (callback # debounce.callback)]
  /\ UNCHANGED <<timers, clock, debouncedCalls, invocations>>
  /\ UnchangedByDebounce

\* useEffect(() => { callbackRef.current = callback }, [callback])
RefEffect ==
  /\ debounce.refEffectPending
  /\ debounce' = [debounce EXCEPT !.callbackRef = debounce.callback,
                                  !.refEffectPending = FALSE]
  /\ UNCHANGED <<timers, clock, debouncedCalls, invocations>>
  /\ UnchangedByDebounce

\* the function useCallback returns, called by the mounted component
CallDebounced ==
  /\ debounce.mounted
  /\ Len(debouncedCalls) < MaxDebouncedCalls
  /\ clock + debounce.delay <= MaxTime
  /\ \E args \in CallArguments :
       /\ timers' = clearTimeout(timers, debounce.timeoutRef)
                      \cup {[id |-> Len(debouncedCalls) + 1, args |-> args,
                             due |-> clock + debounce.delay]}
       /\ debouncedCalls' = Append(debouncedCalls,
                                   [args |-> args, at |-> clock, delay |-> debounce.delay])
  /\ debounce' = [debounce EXCEPT !.timeoutRef = Len(debouncedCalls) + 1]
  /\ UNCHANGED <<clock, invocations>>
  /\ UnchangedByDebounce

\* a due timer runs: callbackRef.current(...args)
FireTimer ==
  /\ \E t \in timers :
       /\ t.due <= clock
       /\ timers' = timers \ {t}
       /\ invocations' = Append(invocations,
                                [call |-> t.id, callback |-> debounce.callbackRef,
                                 args |-> t.args, at |-> clock,
                                 supplied |-> debounce.callback,
                                 mounted |-> debounce.mounted])
  /\ UNCHANGED <<debounce, clock, debouncedCalls>>
  /\ UnchangedByDebounce

\* time passes, unless a timer is due
Tick ==
  /\ clock < MaxTime
  /\ \A t \in timers : t.due > clock
  /\ clock' = clock + 1
  /\ UNCHANGED <<debounce, timers, debouncedCalls, invocations>>
  /\ UnchangedByDebounce

\* the component is removed; the cleanup of the effect on [] is scheduled
Unmount ==
  /\ debounce.mounted
  /\ ~debounce.refEffectPending
  /\ debounce' = [debounce EXCEPT !.mounted = FALSE, !.cleanupPending = TRUE]
  /\ UNCHANGED <<timers, clock, debouncedCalls, invocations>>
  /\ UnchangedByDebounce

\* the cleanup: if (timeoutRef.current) clearTimeout(timeoutRef.current)
CleanupEffect ==
  /\ debounce.cleanupPending
  /\ debounce' = [debounce EXCEPT !.cleanupPending = FALSE]
  /\ timers' = IF debounce.timeoutRef # 0 THEN clearTimeout(timers, debounce.timeoutRef)
               ELSE timers
  /\ UNCHANGED <<clock, debouncedCalls, invocations>>
  /\ UnchangedByDebounce

\* the providers and components beside the page and the theme, as mounted
\* over an empty localStorage
InitOtherVars ==
  /\ PreferencesMountedWith(NoSaved)
  /\ SpectrumMounted
  /\ BoundaryMounted
  /\ DebounceMountedWith("first", 1)

(***************************************************************************)
(* The calls of a client of the utility functions.                         *)
(***************************************************************************)
Init ==
  /\ calls = <<>>
  /\ mathLog10 = [v \in LogDomain |-> Log10Nearest(v)]
  /\ mathPowUlp = 0
  /\ mathLogUlp = 0
  /\ InitUIVars
  /\ MountedWith(Missing, FALSE)
  /\ InitOtherVars

Next ==
  \/ CallWavelengthToFrequency
  \/ CallFrequencyToWavelength
  \/ CallFrequencyToEnergyEV
  \/ CallWavelengthToEnergyEV
  \/ CallEnergyEVToWavelength
  \/ CallEnergyEVToFrequency
  \/ CallGetRegionByWavelength
  \/ CallGetRegionByFrequency
  \/ CallGetRegionByEnergy
  \/ CallFormatWavelength
  \/ CallFormatFrequency
  \/ CallFormatEnergy
  \/ CallParseWavelength
  \/ CallParseFrequency
  \/ CallParseEnergy
  \/ CallConvertWavelength
  \/ CallConvertFrequency
  \/ CallConvertEnergy
  \/ CallGetBestWavelengthUnit
  \/ CallGetBestFrequencyUnit
  \/ CallGetBestEnergyUnit
  \/ StartOver

Spec == Init /\ [][Next]_vars

(***************************************************************************)
(* The logarithmic scale under every engine.                               *)
(***************************************************************************)
InitLog ==
  /\ calls = <<>>
  /\ mathLog10 \in Engines
  /\ mathPowUlp \in {-1, 0, 1}
  /\ mathLogUlp = 0
  /\ InitUIVars
  /\ MountedWith(Missing, FALSE)
  /\ InitOtherVars

NextLog ==
  \/ CallGetLogPosition
  \/ CallGetValueFromLogPosition
  \/ StartOver

SpecLog == InitLog /\ [][NextLog]_vars

(***************************************************************************)
(* The interface in use.                                                   *)
(***************************************************************************)
NextUI ==
  \/ PanelEffect
  \/ TypeWavelength
  \/ TypeFrequency
  \/ TypeEnergy
  \/ MoveSlider

SpecUI == Init /\ [][NextUI]_vars

(***************************************************************************)
(* The theme in use, from every stored value and system scheme.            *)
(***************************************************************************)
InitTheme ==
  /\ calls = <<>>
  /\ mathLog10 = [v \in LogDomain |-> Log10Nearest(v)]
  /\ mathPowUlp = 0
  /\ mathLogUlp = 0
  /\ InitUIVars
  /\ \E saved \in StoredValues, dark \in BOOLEAN : MountedWith(saved, dark)
  /\ InitOtherVars

NextTheme ==
  \/ ThemeEffects
  \/ CallSetTheme
  \/ CallToggleTheme
  \/ SystemSchemeChange
  \/ Reload

SpecTheme == InitTheme /\ [][NextTheme]_vars

(***************************************************************************)
(* The preferences in use, from every stored value.                        *)
(***************************************************************************)
InitPreferences ==
  /\ calls = <<>>
  /\ mathLog10 = [v \in LogDomain |-> Log10Nearest(v)]
  /\ mathPowUlp = 0
  /\ mathLogUlp = 0
  /\ InitUIVars
  /\ MountedWith(Missing, FALSE)
  /\ \E stored \in StoredPreferences : PreferencesMountedWith(stored)
  /\ SpectrumMounted
  /\ BoundaryMounted
  /\ DebounceMountedWith("first", 1)

NextPreferences ==
  \/ PreferencesEffect
  \/ CallUpdatePreferences
  \/ CallResetPreferences
  \/ ReloadPreferences

SpecPreferences == InitPreferences /\ [][NextPreferences]_vars

(***************************************************************************)
(* The bar in use under every engine.                                      *)
(***************************************************************************)
InitSpectrum ==
  /\ calls = <<>>
  /\ mathLog10 = [v \in LogDomain |-> Log10Nearest(v)]
  /\ mathPowUlp \in {-1, 0, 1}
  /\ mathLogUlp \in {-1, 0, 1}
  /\ InitUIVars
  /\ MountedWith(Missing, FALSE)
  /\ InitOtherVars

NextSpectrum ==
  \/ TabulateBar
  \/ PanelEffect
  \/ ClickSpectrum
  \/ PressKey

SpecSpectrum == InitSpectrum /\ [][NextSpectrum]_vars

(***************************************************************************)
(* The whole page in use: every way of selecting a wavelength.             *)
(***************************************************************************)
NextApp ==
  \/ TabulateBar
  \/ PanelEffect
  \/ TypeWavelength
  \/ TypeFrequency
  \/ TypeEnergy
  \/ MoveSlider
  \/ ClickSpectrum
  \/ PressKey
  \/ ClickRegion

SpecApp == Init /\ [][NextApp]_vars

(***************************************************************************)
(* The error boundary around throwing descendants.                         *)
(***************************************************************************)
NextBoundary ==
  \/ DescendantThrows
  \/ DescendantRenders
  \/ TryAgain

SpecBoundary == Init /\ [][NextBoundary]_vars

(***************************************************************************)
(* The debounced function in use; in FairDebounce the browser keeps its    *)
(* clock running and runs every timer that stays due.                      *)
(***************************************************************************)
NextDebounce ==
  \/ Rerender
  \/ RefEffect
  \/ CallDebounced
  \/ FireTimer
  \/ Tick
  \/ Unmount
  \/ CleanupEffect

InitDebounce ==
  /\ calls = <<>>
  /\ mathLog10 = [v \in LogDomain |-> Log10Nearest(v)]
  /\ mathPowUlp = 0
  /\ mathLogUlp = 0
  /\ InitUIVars
  /\ MountedWith(Missing, FALSE)
  /\ PreferencesMountedWith(NoSaved)
  /\ SpectrumMounted
  /\ BoundaryMounted
  /\ \E callback \in Callbacks, delay \in Delays : DebounceMountedWith(callback, delay)

SpecDebounce == InitDebounce /\ [][NextDebounce]_vars

FairDebounce == SpecDebounce /\ WF_vars(Tick) /\ WF_vars(FireTimer)
(***************************************************************************)
(* Properties.  Exact comparisons on the values the numbers stand for.     *)
(***************************************************************************)
IsPositiveFinite(x) == x.k = "fin" /\ x.m # <<>> /\ x.s = 1

\* |x - y| <= n * 10^-k * |y|, exactly, for positive finite x and y; false
\* when either is not a positive finite number
WithinRel(x, y, n, k) ==
  /\ IsPositiveFinite(x) /\ IsPositiveFinite(y)
  /\ x.e - y.e < 64 /\ y.e - x.e < 64
  /\ BCmp(BMul(BDist(BShl(x.m, x.e - Min(x.e, y.e)),
                     BShl(y.m, y.e - Min(x.e, y.e))), BPow10(k)),
          BMulSmall(BShl(y.m, y.e - Min(x.e, y.e)), n)) <= 0

Conversions ==
  {"wavelengthToFrequency", "frequencyToWavelength", "frequencyToEnergyEV",
   "wavelengthToEnergyEV", "energyEVToWavelength", "energyEVToFrequency"}

\* call i + 1 was given what call i returned
Chained(i, first, second) ==
  /\ calls[i].fn = first
  /\ calls[i + 1].fn = second
  /\ calls[i + 1].arg = calls[i].ret

\* C1: each of the six conversions returns NaN, and throws nothing, when its
\* input is zero, negative, NaN, Infinity or -Infinity.
C1_InvalidInputGivesNaN ==
  \A i \in DOMAIN calls :
    calls[i].fn \in Conversions /\ ~IsPositiveFinite(calls[i].arg)
      => calls[i].ret = NaN

C1_Witness ==
  \E i \in DOMAIN calls :
    /\ calls[i].fn = "energyEVToFrequency"
    /\ calls[i].arg = NegInf
    /\ calls[i].ret = NaN

\* the regions whose closed wavelength interval contains w
RegionsHolding(w) ==
  {j \in DOMAIN SPECTRUM_REGIONS :
     /\ FLe(SPECTRUM_REGIONS[j].wavelengthMin, w)
     /\ FLe(w, SPECTRUM_REGIONS[j].wavelengthMax)}

UnitTableOf(fn) ==
  CASE fn = "parseWavelength" -> WAVELENGTH_UNITS
    [] fn = "parseFrequency" -> FREQUENCY_UNITS
    [] fn = "parseEnergy" -> ENERGY_UNITS

\* the text n sep v, where v spells a symbol u of the function's unit table,
\* was parsed to the number n times u's factor, give or take one part in 1e9
\* (the table's factors carry ten significant digits)
ParsedAs(call, n, sep, u, v) ==
  call.arg = Str(n \o sep \o v)
    => WithinRel(call.ret, FMul(parseFloat(n), UnitTableOf(call.fn)[u].factor), 1, 9)

\* C3: for every unit symbol u of the quantity's unit table and every
\* positive finite number n, the parse function applied to the text of n
\* followed by u (with optional whitespace, in any letter case) returns n
\* multiplied by u's factor.
C3_ParsesEveryTableUnit ==
  \A i \in DOMAIN calls :
    calls[i].fn \in {"parseWavelength", "parseFrequency", "parseEnergy"} =>
      \A n \in NumberTexts, sep \in Separators :
        \A u \in DOMAIN UnitTableOf(calls[i].fn) :
          \A v \in Spellings(u) : ParsedAs(calls[i], n, sep, u, v)

\* C4: for every wavelength w that getRegionByWavelength assigns to a region,
\* getRegionByFrequency(wavelengthToFrequency(w)) and
\* getRegionByEnergy(wavelengthToEnergyEV(w)) return that same region.
C4_ClassifiersAgree ==
  \A i \in 1..(Len(calls) - 1) :
    /\ getRegionByWavelength(calls[i].arg) # Null
    /\ \/ Chained(i, "wavelengthToFrequency", "getRegionByFrequency")
       \/ Chained(i, "wavelengthToEnergyEV", "getRegionByEnergy")
    => calls[i + 1].ret = getRegionByWavelength(calls[i].arg)

\* C5: convertWavelength, convertFrequency and convertEnergy raise an error
\* naming the offending symbol whenever fromUnit or toUnit is not a symbol of
\* the quantity's unit table; no such call returns a number.
C5_UnknownUnitRaises ==
  \A i \in DOMAIN calls :
    /\ (\/ calls[i].fn = "convertWavelength"
           /\ {calls[i].arg[2], calls[i].arg[3]} \ DOMAIN WAVELENGTH_UNITS # {}
        \/ calls[i].fn = "convertFrequency"
           /\ {calls[i].arg[2], calls[i].arg[3]} \ DOMAIN FREQUENCY_UNITS # {}
        \/ calls[i].fn = "convertEnergy"
           /\ {calls[i].arg[2], calls[i].arg[3]} \ DOMAIN ENERGY_UNITS # {})
    => /\ calls[i].ret.k = "throw"
       /\ includes(calls[i].ret.message, calls[i].arg[2])
       /\ includes(calls[i].ret.message, calls[i].arg[3])

\* every region has 0 < min < max in each quantity, the regions ascend in
\* wavelength, and each wavelengthMax is the next region's wavelengthMin
WellFormed(regions) ==
  /\ \A j \in DOMAIN regions :
       /\ FLt(Zero, regions[j].wavelengthMin)
       /\ FLt(regions[j].wavelengthMin, regions[j].wavelengthMax)
       /\ FLt(Zero, regions[j].frequencyMin)
       /\ FLt(regions[j].frequencyMin, regions[j].frequencyMax)
       /\ FLt(Zero, regions[j].energyMin)
       /\ FLt(regions[j].energyMin, regions[j].energyMax)
  /\ \A j \in 1..(Len(regions) - 1) :
       /\ FLt(regions[j].wavelengthMin, regions[j + 1].wavelengthMin)
       /\ regions[j].wavelengthMax = regions[j + 1].wavelengthMin

C7_BoundsFollowRelations ==
  \A i \in DOMAIN calls : \A j \in DOMAIN SPECTRUM_REGIONS :
    /\ calls[i].fn = "wavelengthToFrequency"
         /\ calls[i].arg = SPECTRUM_REGIONS[j].wavelengthMax
       => WithinRel(SPECTRUM_REGIONS[j].frequencyMin, calls[i].ret, 1, 1)
    /\ calls[i].fn = "wavelengthToFrequency"
         /\ calls[i].arg = SPECTRUM_REGIONS[j].wavelengthMin
       => WithinRel(SPECTRUM_REGIONS[j].frequencyMax, calls[i].ret, 1, 1)
    /\ calls[i].fn = "wavelengthToEnergyEV"
         /\ calls[i].arg = SPECTRUM_REGIONS[j].wavelengthMax
       => WithinRel(SPECTRUM_REGIONS[j].energyMin, calls[i].ret, 1, 1)
    /\ calls[i].fn = "wavelengthToEnergyEV"
         /\ calls[i].arg = SPECTRUM_REGIONS[j].wavelengthMin
       => WithinRel(SPECTRUM_REGIONS[j].energyMax, calls[i].ret, 1, 1)

\* a round trip: wavelength to frequency (or energy) and back
RoundTrip(i) ==
  \/ Chained(i, "wavelengthToFrequency", "frequencyToWavelength")
  \/ Chained(i, "wavelengthToEnergyEV", "energyEVToWavelength")

\* C8 as stated: for every finite, strictly positive wavelength w,
\* frequencyToWavelength(wavelengthToFrequency(w)) and
\* energyEVToWavelength(wavelengthToEnergyEV(w)) equal w within relative
\* error 1e-10.
C8_RoundTripEveryWavelength ==
  \A i \in 1..(Len(calls) - 1) :
    RoundTrip(i) /\ IsPositiveFinite(calls[i].arg)
      => WithinRel(calls[i + 1].ret, calls[i].arg, 1, 10)

\* the wavelengths whose frequency and energy are normal numbers with room to
\* spare: 2^-990 <= w <= 2^990
MidRange(w) == FGe(w, TwoTo(-990)) /\ FLe(w, TwoTo(990))

\* C8: for every wavelength w with 2^-990 <= w <= 2^990, both round trips
\* return w within relative error 1e-10.
C8_RoundTripMidRange ==
  \A i \in 1..(Len(calls) - 1) :
    RoundTrip(i) /\ MidRange(calls[i].arg)
      => WithinRel(calls[i + 1].ret, calls[i].arg, 1, 10)

C8_Witness ==
  /\ Len(calls) = 2
  /\ Chained(1, "wavelengthToEnergyEV", "energyEVToWavelength")
  /\ calls[1].arg = TwoTo(-990)
  /\ WithinRel(calls[2].ret, calls[1].arg, 1, 10)

\* C9 as stated, read with the tolerance of the repository's own test: for
\* every finite, strictly positive wavelength w, wavelengthToEnergyEV(w) and
\* frequencyToEnergyEV(wavelengthToFrequency(w)) are the same energy, to
\* within relative error 1e-12.
C9_SameEnergyEveryWavelength ==
  \A i \in 1..(Len(calls) - 1) :
    /\ Chained(i, "wavelengthToFrequency", "frequencyToEnergyEV")
    /\ IsPositiveFinite(calls[i].arg)
    => \/ calls[i + 1].ret = wavelengthToEnergyEV(calls[i].arg)
       \/ WithinRel(calls[i + 1].ret, wavelengthToEnergyEV(calls[i].arg), 1, 12)

\* C9: for every wavelength w with 2^-990 <= w <= 2^990, the energy through
\* the frequency is within relative error 1e-12 of wavelengthToEnergyEV(w).
C9_SameEnergyMidRange ==
  \A i \in 1..(Len(calls) - 1) :
    /\ Chained(i, "wavelengthToFrequency", "frequencyToEnergyEV")
    /\ MidRange(calls[i].arg)
    => WithinRel(calls[i + 1].ret, wavelengthToEnergyEV(calls[i].arg), 1, 12)

\* the two paths differ in the last place at 1e-8 m and still agree to 1e-12
C9_Witness ==
  /\ Len(calls) = 2
  /\ Chained(1, "wavelengthToFrequency", "frequencyToEnergyEV")
  /\ calls[1].arg = Num(10, -9)
  /\ calls[2].ret # wavelengthToEnergyEV(calls[1].arg)
  /\ WithinRel(calls[2].ret, wavelengthToEnergyEV(calls[1].arg), 1, 12)

\* The bracket tables: each unit's symbol and its size, the number written
\* 1e<p>; a table covers the values from its smallest unit up (wavelengths
\* below one metre)
Brackets(fn) ==
  CASE fn = "formatWavelength" ->
         {<<<<"p", "m">>, -12>>, <<<<"n", "m">>, -9>>, <<<<"μ", "m">>, -6>>, <<<<"m", "m">>, -3>>}
    [] fn = "formatFrequency" ->
         {<<<<"H", "z">>, 0>>, <<<<"k", "H", "z">>, 3>>, <<<<"M", "H", "z">>, 6>>, <<<<"G", "H", "z">>, 9>>,
          <<<<"T", "H", "z">>, 12>>, <<<<"P", "H", "z">>, 15>>}
    [] fn = "formatEnergy" ->
         {<<<<"m", "e", "V">>, -3>>, <<<<"e", "V">>, 0>>, <<<<"k", "e", "V">>, 3>>, <<<<"M", "e", "V">>, 6>>,
          <<<<"G", "e", "V">>, 9>>}

InBrackets(fn, x) ==
  /\ IsPositiveFinite(x)
  /\ \E b \in Brackets(fn) : FGe(x, Num(1, b[2]))
  /\ fn = "formatWavelength" => FLt(x, Num(1, 0))

\* the largest unit of the table whose size x meets or exceeds
BestBracket(fn, x) ==
  CHOOSE b \in Brackets(fn) :
    /\ FGe(x, Num(1, b[2]))
    /\ \A c \in Brackets(fn) : FGe(x, Num(1, c[2])) => c[2] <= b[2]

\* text is digits, a point and two digits, and the number it writes is
\* within 0.00501 of x / 10^p
TwoDecimalsOf(text, x, p) ==
  /\ Len(text) >= 4
  /\ text[Len(text) - 2] = "."
  /\ \A j \in DOMAIN text : j # Len(text) - 2 => IsDigit(text[j])
  /\ BCmp(BMulSmall(
            BDist(BMul(BFromDigits(DigitValues(Without(text, {"."}), 1, Len(text))),
                       BMul(BShl(<<1>>, Max(0 - x.e, 0)), BPow10(Max(p, 0)))),
                  BMulSmall(BMul(BShl(x.m, Max(x.e, 0)), BPow10(Max(0 - p, 0))),
                            100)),
            1000),
          BMulSmall(BMul(BShl(<<1>>, Max(0 - x.e, 0)), BPow10(Max(p, 0))), 501))
     <= 0

CanonicalUnit(fn) ==
  CASE fn = "formatWavelength" -> <<"m">>
    [] fn = "formatFrequency" -> <<"H", "z">>
    [] fn = "formatEnergy" -> <<"e", "V">>

\* below the smallest unit of the table, or (wavelengths) from the end of
\* the largest unit's bracket on
OutsideBrackets(fn, x) ==
  /\ IsPositiveFinite(x)
  /\ \/ \A b \in Brackets(fn) : FLt(x, Num(1, b[2]))
     \/ fn = "formatWavelength" /\ FGe(x, Num(1, 0))

\* text is d.dde+n or d.dde-n: one digit, a point, two digits, the letter e,
\* a sign and the digits of the exponent
IsExponential(text) ==
  /\ Len(text) >= 7
  /\ IsDigit(text[1]) /\ text[1] # "0"
  /\ text[2] = "."
  /\ IsDigit(text[3]) /\ IsDigit(text[4])
  /\ text[5] = "e"
  /\ text[6] \in {"+", "-"}
  /\ \A j \in 7..Len(text) : IsDigit(text[j])

\* C11: formatWavelength, formatFrequency and formatEnergy render every
\* finite positive value below the smallest unit bracket or above the largest
\* one in exponential notation followed by the canonical unit (m, Hz, eV).
C11_ExponentialOutsideBrackets ==
  \A i \in DOMAIN calls :
    /\ calls[i].fn \in {"formatWavelength", "formatFrequency", "formatEnergy"}
    /\ OutsideBrackets(calls[i].fn, calls[i].arg)
    => \E n \in 1..Len(calls[i].ret.chars) :
         /\ calls[i].ret.chars[n] = " "
         /\ SubSeq(calls[i].ret.chars, n + 1, Len(calls[i].ret.chars))
              = CanonicalUnit(calls[i].fn)
         /\ IsExponential(SubSeq(calls[i].ret.chars, 1, n - 1))

ParseFunctions == {"parseWavelength", "parseFrequency", "parseEnergy"}

\* the texts the parsers are said to reject wherever they occur
DeniedTexts == {<<"n", "u", "l", "l">>, <<"u", "n", "d", "e", "f", "i", "n", "e", "d">>, <<"/">>, <<"I", "n", "f", "i", "n", "i", "t", "y">>, <<"N", "a", "N">>}

\* the numeric portion of a text is missing, not positive or not finite
NoPositiveNumber(text) == ~IsPositiveFinite(parseFloat(trim(text)))

\* C12: parseWavelength, parseFrequency and parseEnergy return NaN, and throw
\* nothing, for every input whose numeric portion is missing, non-positive or
\* non-finite, and for every input string that contains the text null,
\* undefined, /, Infinity or NaN.
C12_RejectsInvalidText ==
  \A i \in DOMAIN calls :
    /\ calls[i].fn \in ParseFunctions
    /\ \/ NoPositiveNumber(calls[i].arg.chars)
       \/ \E d \in DeniedTexts : includes(calls[i].arg.chars, d)
    => calls[i].ret = NaN

\* the thresholds of getBest*Unit: each unit's symbol and its size 1e<p>
Thresholds(fn) ==
  CASE fn = "getBestWavelengthUnit" ->
         {<<<<"k", "m">>, 3>>, <<<<"m">>, 0>>, <<<<"c", "m">>, -2>>, <<<<"m", "m">>, -3>>,
          <<<<"μ", "m">>, -6>>, <<<<"n", "m">>, -9>>, <<<<"p", "m">>, -12>>, <<<<"f", "m">>, -15>>}
    [] fn = "getBestFrequencyUnit" ->
         {<<<<"P", "H", "z">>, 15>>, <<<<"T", "H", "z">>, 12>>, <<<<"G", "H", "z">>, 9>>, <<<<"M", "H", "z">>, 6>>,
          <<<<"k", "H", "z">>, 3>>}
    [] fn = "getBestEnergyUnit" ->
         {<<<<"T", "e", "V">>, 12>>, <<<<"G", "e", "V">>, 9>>, <<<<"M", "e", "V">>, 6>>, <<<<"k", "e", "V">>, 3>>,
          <<<<"e", "V">>, 0>>, <<<<"m", "e", "V">>, -3>>}

\* the conversion table and the canonical unit of each quantity
BestUnitTable(fn) ==
  CASE fn = "getBestWavelengthUnit" -> WAVELENGTH_UNITS
    [] fn = "getBestFrequencyUnit" -> FREQUENCY_UNITS
    [] fn = "getBestEnergyUnit" -> ENERGY_UNITS

BestUnitCanonical(fn) ==
  CASE fn = "getBestWavelengthUnit" -> <<"m">>
    [] fn = "getBestFrequencyUnit" -> <<"H", "z">>
    [] fn = "getBestEnergyUnit" -> <<"e", "V">>

\* the thresholds that |v| meets or exceeds (none when v is NaN)
ThresholdsMet(fn, v) ==
  {b \in Thresholds(fn) : v.k # "nan" /\ FGe(Abs(v), Num(1, b[2]))}

\* C13: getBestWavelengthUnit, getBestFrequencyUnit and getBestEnergyUnit
\* return the unit of the largest threshold that the absolute value of the
\* input meets or exceeds, with the input divided by that unit's factor in
\* the conversion table; below the smallest threshold they return the
\* canonical unit (m, Hz, eV) with the value unchanged, never an error.
C13_BestUnitByThreshold ==
  \A i \in DOMAIN calls :
    calls[i].fn \in {"getBestWavelengthUnit", "getBestFrequencyUnit", "getBestEnergyUnit"} =>
      /\ calls[i].ret.k = "object"
      /\ calls[i].ret.unit = calls[i].ret.symbol
      /\ IF ThresholdsMet(calls[i].fn, calls[i].arg) = {}
         THEN /\ calls[i].ret.unit = BestUnitCanonical(calls[i].fn)
              /\ calls[i].ret.value = calls[i].arg
         ELSE \E b \in ThresholdsMet(calls[i].fn, calls[i].arg) :
                /\ \A c \in ThresholdsMet(calls[i].fn, calls[i].arg) : c[2] <= b[2]
                /\ calls[i].ret.unit = b[1]
                /\ calls[i].ret.value
                     = FDiv(calls[i].arg, BestUnitTable(calls[i].fn)[b[1]].factor)

\* one millielectronvolt, negative here, meets the smallest threshold exactly
C13_Witness ==
  \E i \in DOMAIN calls :
    /\ calls[i].fn = "getBestEnergyUnit"
    /\ calls[i].arg = Neg(Num(1, -3))
    /\ calls[i].ret = Best(Neg(Num(1, 0)), <<"m", "e", "V">>)

\* the reference wavelengths of the 'Known Wavelength Classification' test
\* and the region expected for each
KnownWavelengths ==
  { <<Num(380, -9), "visible">>, <<Num(550, -9), "visible">>,
    <<Num(700, -9), "visible">>, <<Num(1, -6), "infrared">>,
    <<Num(1, -3), "microwave">>, <<Num(100, -9), "ultraviolet">>,
    <<Num(1, -12), "gamma">> }

\* C16: getRegionByWavelength classifies the reference wavelengths as the
\* test expects: 380 nm, 550 nm and 700 nm visible, 1 um infrared, 1 mm
\* microwave, 100 nm ultraviolet and 1 pm gamma.
C16_KnownWavelengthsClassified ==
  \A i \in DOMAIN calls : \A known \in KnownWavelengths :
    calls[i].fn = "getRegionByWavelength" /\ calls[i].arg = known[1]
      => calls[i].ret # Null /\ calls[i].ret.id = known[2]

\* the exponents k of the coverage test: 10^-15 m to 10^6 m
CoverageExponents == -15..6

\* C17: getRegionByWavelength returns a region, not null, for every
\* power-of-ten wavelength 10^k metres with k from -15 to 6.
C17_PowersOfTenCovered ==
  \A i \in DOMAIN calls : \A k \in CoverageExponents :
    calls[i].fn = "getRegionByWavelength" /\ calls[i].arg = Num(1, k)
      => calls[i].ret # Null

\* call 2 maps back the position call 1 returned, on the same scale
ScaleRoundTrip ==
  /\ Len(calls) = 2
  /\ calls[1].fn = "getLogPosition"
  /\ calls[2].fn = "getValueFromLogPosition"
  /\ calls[2].arg = <<calls[1].ret, calls[1].arg[2], calls[1].arg[3]>>

\* 0 < min < max and value in [min, max]
OnScale(value, min, max) ==
  /\ FLt(Zero, min) /\ FLt(min, max)
  /\ FLe(min, value) /\ FLe(value, max)

Settled == ~panelEffectPending

\* C15: the selected wavelength is the single source of truth: in every
\* state the interface settles in, the frequency, energy and region held in
\* AppContent and the frequency and energy held in SimpleConversionPanel are
\* exactly the values computed from the current selectedWavelength.
C15_SingleSourceOfTruth ==
  Settled =>
    /\ appContent.frequency = wavelengthToFrequency(appContent.selectedWavelength)
    /\ appContent.energy = wavelengthToEnergyEV(appContent.selectedWavelength)
    /\ appContent.region = getRegionByWavelength(appContent.selectedWavelength)
    /\ conversionPanel.frequency = wavelengthToFrequency(appContent.selectedWavelength)
    /\ conversionPanel.energy = wavelengthToEnergyEV(appContent.selectedWavelength)

\* the advertised range of the field a handler serves, and the number the
\* field holds, in the field's unit
RangeOf(handler) ==
  CASE handler = "handleWavelengthChange" -> INPUT_RANGES.WAVELENGTH_NM
    [] handler = "handleFrequencyChange" -> INPUT_RANGES.FREQUENCY_THz
    [] handler = "handleEnergyChange" -> INPUT_RANGES.ENERGY_EV

FieldValue(handler) ==
  CASE handler = "handleWavelengthChange" -> conversionPanel.wavelengthNm
    [] handler = "handleFrequencyChange" ->
         FMul(conversionPanel.frequency, CONVERSION_FACTORS.HERTZ_TO_TERAHERTZ)
    [] handler = "handleEnergyChange" -> conversionPanel.energy

\* C18: a value entered in a conversion-panel field that lies outside the
\* field's valid range is adjusted to the nearest valid value, so once the
\* input has taken effect the field's value is inside the valid range.
C18_OutOfRangeInputClamped ==
  /\ Settled
  /\ lastEvent.handler \in {"handleWavelengthChange", "handleFrequencyChange", "handleEnergyChange"}
  /\ isFinite(parseFloat(lastEvent.text))
  => /\ FLe(RangeOf(lastEvent.handler).MIN, FieldValue(lastEvent.handler))
     /\ FLe(FieldValue(lastEvent.handler), RangeOf(lastEvent.handler).MAX)

\* the fixed cycle light -> dark -> system -> light
CycleAfter == [light |-> "dark", dark |-> "system", system |-> "light"]

\* calls i, i + 1 and i + 2 are toggles
ThreeToggles(i) == \A j \in i..(i + 2) : themeCalls[j].fn = "toggleTheme"

\* C19: toggleTheme advances the theme setting exactly one step in the cycle
\* light -> dark -> system -> light, so three successive toggles, each made
\* after the previous one has taken effect, return the setting to where it
\* started.
C19_ToggleAdvancesCycle ==
  /\ theme = themeCalls[Len(themeCalls)].after
  /\ \A i \in DOMAIN themeCalls :
       themeCalls[i].fn = "toggleTheme"
         => themeCalls[i].after = CycleAfter[themeCalls[i].before]
  /\ \A i \in 1..(Len(themeCalls) - 2) :
       ThreeToggles(i) => themeCalls[i + 2].after = themeCalls[i].before

\* three toggles from dark are back at dark, saved and shown
C19_Witness ==
  /\ Len(themeCalls) = 4
  /\ ThreeToggles(2)
  /\ themeCalls[2].before = "dark"
  /\ themeCalls[3].before = "system"
  /\ themeCalls[4].before = "light"
  /\ theme = "dark"
  /\ ~themeEffectPending

\* what a mount restores from a stored value
Restored(saved) == IF saved \in {"light", "dark", "system"} THEN saved ELSE "system"

\* C20: once the effects have run, the value stored under 'theme' equals the
\* current theme; a ThemeProvider mounted afterwards starts with the stored
\* value when it is light, dark or system, and with system when the stored
\* value is missing or anything else.
C20_PersistedAndRestored ==
  /\ ~themeEffectPending => storedTheme = theme
  /\ \A i \in DOMAIN themeCalls :
       themeCalls[i].fn = "ThemeProvider"
         => themeCalls[i].after = Restored(themeCalls[i].arg)
  /\ \A i \in 2..Len(themeCalls) :
       themeCalls[i].fn = "ThemeProvider" /\ themeCalls[i].arg = themeCalls[i - 1].after
         => themeCalls[i].after = themeCalls[i - 1].after

\* dark is chosen, the page is loaded again and starts dark; loaded once
\* more over a stored value that is no theme, it starts with system
C20_Witness ==
  /\ Len(themeCalls) = 4
  /\ themeCalls[2].fn = "setTheme" /\ themeCalls[2].after = "dark"
  /\ themeCalls[3].fn = "ThemeProvider" /\ themeCalls[3].arg = "dark"
  /\ themeCalls[3].after = "dark"
  /\ themeCalls[4].fn = "ThemeProvider" /\ themeCalls[4].arg = "blue"
  /\ theme = "system"
  /\ ~themeEffectPending /\ storedTheme = "system"

\* C21: after any sequence of setTheme calls (with any argument),
\* toggleTheme calls and colour-scheme changes of the operating system, once
\* no effect is pending, theme is one of light, dark, system; resolvedTheme
\* is light or dark; resolvedTheme equals theme when theme is light or dark,
\* and the current preference of the operating system when theme is system.
C21_ResolvedThemeFollows ==
  ~themeEffectPending =>
    /\ theme \in {"light", "dark", "system"}
    /\ resolvedTheme \in {"light", "dark"}
    /\ theme \in {"light", "dark"} => resolvedTheme = theme
    /\ theme = "system" => resolvedTheme = (IF prefersDark THEN "dark" ELSE "light")

\* light is set, two toggles lead to system, and the system prefers dark
C21_Witness ==
  /\ Len(themeCalls) = 4
  /\ themeCalls[2].fn = "setTheme" /\ themeCalls[2].after = "light"
  /\ themeCalls[3].fn = "toggleTheme"
  /\ themeCalls[4].fn = "toggleTheme"
  /\ theme = "system"
  /\ prefersDark
  /\ resolvedTheme = "dark"
  /\ ~themeEffectPending

\* the defaults the settings are documented with
DocumentedDefaults ==
  [wavelengthUnit |-> "nm",
   frequencyUnit |-> "THz",
   energyUnit |-> "eV",
   showScientificNotation |-> TRUE,
   decimalPlaces |-> 2]

\* the provider has mounted over no saved preferences, or resetPreferences
\* was called, and nothing was called since
AtDefaults ==
  \/ preferencesCalls[Len(preferencesCalls)].fn = "resetPreferences"
  \/ /\ preferencesCalls[Len(preferencesCalls)].fn = "PreferencesProvider"
     /\ ~preferencesCalls[Len(preferencesCalls)].saved

\* C22: with no saved preferences, and again after resetPreferences, the
\* user preferences are: wavelength unit nm, frequency unit THz, energy unit
\* eV, scientific notation on, and 2 decimal places.
C22_DocumentedDefaults ==
  AtDefaults => preferences.value = DocumentedDefaults

\* C23: in every reachable state of the page the selected wavelength is a
\* finite number above zero, whatever clicks, key presses, slider moves,
\* panel inputs and quick-select clicks came before
C23_SelectionFinitePositive ==
  /\ isFinite(appContent.selectedWavelength)
  /\ FLt(Zero, appContent.selectedWavelength)

\* the place of a click x pixels from the left, in percent of the bar
ClickPercent == [x \in ClickOffsets |-> FMul(FDiv(IntNum(x), IntNum(BarWidth)), Num(100, 0))]

\* |a - b| <= tolerance
NoFurtherThan(a, b, tolerance) == FLe(FSub(a, b), tolerance) /\ FLe(FSub(b, a), tolerance)

\* C24: for every click on the bar that selects a wavelength, at any ratio
\* of the bar's width from 0 to 1 and also on the boundary between two
\* regions, the indicator position calculateIndicatorPosition gives for the
\* wavelength handleSpectrumClick selects is within 0.1 of 100 times the
\* click ratio
C24_ClickIndicatorInverse ==
  \A x \in DOMAIN barWavelengths :
    barWavelengths[x].wavelength # Undefined =>
      NoFurtherThan(barWavelengths[x].indicator, ClickPercent[x], Num(1, -1))

\* the bar is tabulated, a click on the boundary between Gamma and X-ray
\* (a quarter of the width) selected a wavelength, and the indicator for it
\* is placed
C24_Witness ==
  /\ barWavelengths # <<>>
  /\ FDiv(IntNum(250), IntNum(BarWidth)) = RegionWidth(1)
  /\ barWavelengths[250].wavelength # Undefined
  /\ isFinite(barWavelengths[250].indicator)
  /\ lastEvent.handler = "handleSpectrumClick"
  /\ lastEvent.x = 250

\* what SimpleSpectrum passed to onWavelengthChange in the last event, if
\* the last event was a click on the bar or a key press that called it
PassedBySpectrum ==
  /\ lastEvent.handler \in {"handleSpectrumClick", "handleKeyDown"}
  /\ lastEvent.passed # Undefined

\* C25: every wavelength SimpleSpectrum passes to onWavelengthChange, from a
\* click at any ratio of the bar's width from 0 to 1 or from an arrow, Home
\* or End key press with or without Shift, lies between WAVELENGTH_BOUNDS.MIN
\* and WAVELENGTH_BOUNDS.MAX and getRegionByWavelength classifies it into a
\* region
C25_PassedWithinBounds ==
  PassedBySpectrum =>
    /\ FGe(lastEvent.passed, WAVELENGTH_BOUNDS.MIN)
    /\ FLe(lastEvent.passed, WAVELENGTH_BOUNDS.MAX)
    /\ getRegionByWavelength(lastEvent.passed) # Null

\* the handlers of the panel's three fields and the largest number each
\* accepts, in the field's unit
PanelHandlers == {"handleWavelengthChange", "handleFrequencyChange", "handleEnergyChange"}
BoundOf(handler) ==
  IF handler = "handleFrequencyChange" THEN Num(1, 15) ELSE Num(1, 12)

\* this step is an input into a field of the panel
PanelInput ==
  /\ pageEvents' = pageEvents + 1
  /\ lastEvent'.handler \in PanelHandlers

\* the text typed in this step parses to a number above zero and not above
\* the field's bound
TypedInRange == Accepted(FieldValues[lastEvent'.text], BoundOf(lastEvent'.handler))

\* C26: an input into a field of the conversion panel calls
\* onWavelengthChange if and only if the typed text parses to a number v with
\* 0 < v <= bound (1e12 nm, 1e15 THz, 1e12 eV); for any other text the
\* panel's wavelength, frequency and energy and the selected wavelength stay
\* as they were
C26_SelectionChangesIffInRange ==
  [][PanelInput =>
       /\ TypedInRange <=> lastEvent'.passed # Undefined
       /\ ~TypedInRange => UNCHANGED <<conversionPanel, appContent>>]_vars

\* C28: a click on the quick-select button of a region R passes the
\* geometric mean sqrt(R.wavelengthMin * R.wavelengthMax) to
\* setSelectedWavelength; it lies strictly inside R's range and afterwards
\* getRegionByWavelength of the selection is R, for every region of the
\* catalog
C28_QuickSelectLandsInRegion ==
  lastEvent.handler = "handleRegionClick" =>
    /\ appContent.selectedWavelength =
         Math_sqrt(FMul(SPECTRUM_REGIONS[lastEvent.region].wavelengthMin,
                        SPECTRUM_REGIONS[lastEvent.region].wavelengthMax))
    /\ FLt(SPECTRUM_REGIONS[lastEvent.region].wavelengthMin, appContent.selectedWavelength)
    /\ FLt(appContent.selectedWavelength, SPECTRUM_REGIONS[lastEvent.region].wavelengthMax)
    /\ getRegionByWavelength(appContent.selectedWavelength) = SPECTRUM_REGIONS[lastEvent.region]
    /\ appContent.region = SPECTRUM_REGIONS[lastEvent.region]

\* the quick-select button of the last region of the catalog was clicked
\* after another event, and the selection moved into that region
C28_Witness ==
  /\ lastEvent.handler = "handleRegionClick"
  /\ lastEvent.region = Len(SPECTRUM_REGIONS)
  /\ pageEvents = 2
  /\ appContent.region = SPECTRUM_REGIONS[Len(SPECTRUM_REGIONS)]
  /\ ~panelEffectPending

\* the parser that reads what a formatter writes
ParserOf ==
  [formatWavelength |-> "parseWavelength",
   formatFrequency |-> "parseFrequency",
   formatEnergy |-> "parseEnergy"]

\* call i formats a finite positive value and call i + 1 parses that text
\* with the matching parser
ReadBack(i) ==
  /\ i < Len(calls)
  /\ calls[i].fn \in DOMAIN ParserOf
  /\ isFinite(calls[i].arg) /\ FLt(Zero, calls[i].arg)
  /\ calls[i + 1].fn = ParserOf[calls[i].fn]
  /\ calls[i + 1].arg = calls[i].ret

\* C27: for every finite positive x, the matching parser reads the text a
\* formatter wrote for x with the scale of the unit written, so that the
\* parsed number is x up to the rounding to two decimals: within 0.51 % of x
C27_ParseReadsFormatted ==
  \A i \in DOMAIN calls :
    ReadBack(i) =>
      /\ IsNumber(calls[i + 1].ret)
      /\ NoFurtherThan(calls[i + 1].ret, calls[i].arg, FMul(calls[i].arg, Num(51, -4)))

\* a throw has been caught and no reset has followed it
CaughtSinceReset ==
  \E i \in DOMAIN boundaryEvents :
    /\ boundaryEvents[i].kind = "throw"
    /\ \A j \in (i + 1)..Len(boundaryEvents) : boundaryEvents[j].kind # "reset"

LastBoundaryEvent == boundaryEvents[Len(boundaryEvents)]

\* C30: ErrorBoundary renders the fallback instead of its children exactly
\* when an error thrown by a descendant has been caught since mount or since
\* the last Try Again; a throw sets hasError (and the error), handleReset
\* clears hasError, error and errorInfo so that the children are rendered
\* again, and a further throw brings the fallback back
C30_FallbackWhileCaught ==
  /\ render(boundary) = "fallback" <=> CaughtSinceReset
  /\ boundaryEvents # <<>> /\ LastBoundaryEvent.kind = "throw" =>
       /\ boundary.hasError
       /\ boundary.error = LastBoundaryEvent.error
       /\ boundary.errorInfo = [componentStack |-> LastBoundaryEvent.stack]
  /\ boundaryEvents # <<>> /\ LastBoundaryEvent.kind = "reset" =>
       /\ boundary = BoundaryConstructed
       /\ render(boundary) = "children"

\* a throw, Try Again, and a further throw: the fallback is back
C30_Witness ==
  /\ Len(boundaryEvents) = 3
  /\ boundaryEvents[1].kind = "throw"
  /\ boundaryEvents[2].kind = "reset"
  /\ boundaryEvents[3].kind = "throw"
  /\ boundaryEvents[3].error # boundaryEvents[1].error
  /\ render(boundary) = "fallback"
  /\ boundary.error = boundaryEvents[3].error

\* invocation i of the callback, and the call of the debounced function
\* whose timer made it
CallOf(i) == debouncedCalls[invocations[i].call]

\* invocation i is the one the last call of a run is due: with that call's
\* arguments, delay after it, no later call made before it, of the callback
\* most recently supplied, while the component is mounted
InvocationDue(i) ==
  /\ invocations[i].args = CallOf(i).args
  /\ invocations[i].at = CallOf(i).at + CallOf(i).delay
  /\ \A k \in DOMAIN debouncedCalls :
       k > invocations[i].call => debouncedCalls[k].at >= invocations[i].at
  /\ invocations[i].callback = invocations[i].supplied
  /\ invocations[i].mounted

\* at most one timer is pending, every invocation is due, and no call is
\* answered twice
DebounceSafe ==
  /\ Cardinality(timers) <= 1
  /\ \A i \in DOMAIN invocations : InvocationDue(i)
  /\ \A i, j \in DOMAIN invocations :
       invocations[i].call = invocations[j].call => i = j

\* call k of the debounced function has been made / has been answered
Called(k) == Len(debouncedCalls) >= k
Answered(k) == \E i \in DOMAIN invocations : invocations[i].call = k

\* C29: at most one timer is pending at any time; every call cancels the
\* pending timer, so that a run of calls, each made less than delay after
\* the one before, leads to exactly one invocation: of the most recently
\* supplied callback, with the arguments of the last call, delay after that
\* call; and nothing is invoked after the component has unmounted
C29_DebouncedOnce ==
  /\ []DebounceSafe
  /\ \A k \in 1..MaxDebouncedCalls :
       Called(k) ~> (Answered(k) \/ Called(k + 1) \/ ~debounce.mounted)
====
